---- MODULE Spec2Model ----
(***************************************************************************)
(* ManoMonitor: detector lifecycle (WiFi probe capture, ARP poll, DHCP     *)
(* poll), application startup, vendor resolver and self-location resolver. *)
(* Every coroutine is cut at its await points: one action is the code      *)
(* between two awaits, run atomically by the asyncio event loop.           *)
(***************************************************************************)
EXTENDS Integers, Sequences, FiniteSets, TLC

\* Largest number of entries one ARP table dump / lease file yields.
MaxEntries == 2

VARIABLES
    env,              \* installed tools, interface, lease files (fixed by the host)
    capture_enabled,  \* settings.capture_enabled (cleared by the safety check)
    ls_pc,            \* position of lifespan() in main.py
    mgr_running,      \* NotificationManager._running
    cap_running,      \* ProbeCapture._running
    cap_process,      \* ProbeCapture._process: "none" or "set"
    cap_task,         \* ProbeCapture._task: "none" or "set"
    start_pc,         \* position of a ProbeCapture.start() call
    stop_pc,          \* position of a ProbeCapture.stop() call
    task_pc,          \* position of the _process_probes task
    task_cancel,      \* Task.cancel() was requested and not yet delivered
    proc,             \* the process _process refers to (or last referred to):
                      \* "none", "alive", "exited", "closed" (exited and its
                      \* transport closed)
    proc_term,        \* the current stop() has called terminate()
    proc_killed,      \* the current stop() has called kill()
    waited,           \* the process stop() waits on: "cur" while it is the one
                      \* _process refers to, "old_alive" / "old_exited" once
                      \* the task has put a new process into _process
    arp_running,      \* ARPMonitor._running
    arp_task,         \* ARPMonitor._task: "none" or "set"
    arp_pc,           \* position of ARPMonitor._monitor_loop
    arp_cancel,       \* cancel requested on the ARP task
    arp_left,         \* entries of the current ARP dump still to store
    arp_stop_pc,      \* position of an ARPMonitor.stop() call
    dhcp_running,     \* DHCPMonitor._running
    dhcp_task,        \* DHCPMonitor._task
    dhcp_pc,          \* position of DHCPMonitor._monitor_loop
    dhcp_cancel,      \* cancel requested on the DHCP task
    dhcp_left,        \* devices of the current lease read still to store
    dhcp_stop_pc,     \* position of a DHCPMonitor.stop() call
    lease_file,       \* DHCPMonitor.lease_file: "none", "found", "configured"
    task_err,         \* the capture loop's last iteration logged an exception
    arp_err,          \* the ARP loop's current iteration logged an exception
    dhcp_err,         \* the DHCP loop's current iteration logged an exception
    now,              \* datetime.utcnow(), in cache-duration units
    vnd_keys,         \* vendor sources whose API key is configured
    vnd_cache,        \* EnhancedVendorLookup._cache: key -> [info, time]
    vnd_async_lookup, \* EnhancedVendorLookup._async_lookup is set
    lk,               \* the lookup() calls, one record per caller
    vnd_calls,        \* lookup() calls made so far
    geo_cfg,          \* arguments and host of auto_detect_location()
    gps_stream,       \* the NMEA sentences the GPS device sends, in order
    geo,              \* the auto_detect_location() call
    mon_seen,         \* Monitor.last_seen per api_key: the call that set it
    assets,           \* committed rows of the assets table
    sig_readings,     \* committed rows of the signal_readings table
    probe_logs,       \* committed rows of the probe_logs table
    db_lock,          \* the session holding the database write lock
    hd,               \* the running database sessions, one per handler
    db_calls,         \* handler calls started so far
    call_log,         \* every call: its arguments and its outcome
    pos_in,           \* the readings given to calculate_position
    pos_out,          \* what calculate_position returned
    map_cfg,          \* active monitors and settings.signal_averaging_window
    map_rows,         \* the asset's signal_readings rows, oldest first
    map_cut,          \* index of the oldest row inside the 5-minute window
    map_pc,           \* position of get_map_data in the asset's iteration
    map_fed,          \* position_readings
    map_out,          \* the position reported and the asset's stored one
    grp_groups,       \* the device_groups table, in id order
    grp_asset,        \* the asset group_randomized_macs was called on
    grp_call,         \* position and locals of that call
    sd_in,            \* arguments of two signal_to_distance calls
    sd_out,           \* their results
    ntf_cfg,          \* settings.notify_new_devices
    ntf_db,           \* the asset's row as committed
    ntf_clock,        \* datetime.utcnow(), in ticks
    ntf_pc,           \* position of _notification_loop
    ntf_held,         \* the asset instance the check's session holds
    ntf_sent,         \* the notifications sent, oldest first
    rc_obj,           \* ProbeCapture._running, ._task and ._process
    rc_tpc,           \* position of each capture task
    rc_proc,          \* each tshark process: unborn, alive or exited
    rc_cancel,        \* a cancel() each task has yet to receive
    rc_call,          \* the start and stop requests and what stop() awaits
    ws_conns,         \* ConnectionManager.active_connections
    ws_running,       \* ConnectionManager._running
    ws_task,          \* ConnectionManager._broadcast_task: 0 is None
    ws_loop,          \* position of each broadcast loop task
    ws_cancel,        \* a cancel() each loop task has yet to receive
    ws_client,        \* position of each client's websocket_endpoint
    ws_stop,          \* the stop_broadcast tasks
    rep_logs,         \* the station's probe_logs rows, in row order
    rep_clock,        \* datetime.utcnow() at the station, in ticks
    rep_last,         \* SecondaryReporter.last_report_time
    rep_run           \* position and locals of the reporting loop

lsVars   == <<capture_enabled, ls_pc, mgr_running>>
capVars  == <<cap_running, cap_process, cap_task, start_pc, stop_pc,
              task_pc, task_cancel, proc, proc_term, proc_killed, waited,
              task_err>>
arpVars  == <<arp_running, arp_task, arp_pc, arp_cancel, arp_left, arp_stop_pc,
              arp_err>>
dhcpVars == <<dhcp_running, dhcp_task, dhcp_pc, dhcp_cancel, dhcp_left,
              dhcp_stop_pc, lease_file, dhcp_err>>
detVars  == <<env, lsVars, capVars, arpVars, dhcpVars>>
vndVars  == <<now, vnd_keys, vnd_cache, vnd_async_lookup, lk, vnd_calls>>
geoVars  == <<geo_cfg, gps_stream, geo>>
dbVars   == <<mon_seen, assets, sig_readings, probe_logs, db_lock, hd,
              db_calls, call_log>>
posVars  == <<pos_in, pos_out>>
mapVars  == <<map_cfg, map_rows, map_cut, map_pc, map_fed, map_out>>
grpVars  == <<grp_groups, grp_asset, grp_call>>
sdVars   == <<sd_in, sd_out>>
ntfVars  == <<ntf_cfg, ntf_db, ntf_clock, ntf_pc, ntf_held, ntf_sent>>
raceVars == <<rc_obj, rc_tpc, rc_proc, rc_cancel, rc_call>>
wsVars   == <<ws_conns, ws_running, ws_task, ws_loop, ws_cancel, ws_client,
              ws_stop>>
repVars  == <<rep_logs, rep_clock, rep_last, rep_run>>
extVars  == <<sdVars, ntfVars, raceVars, wsVars, repVars>>
appVars  == <<dbVars, posVars, mapVars, grpVars, extVars>>
restVars == <<vndVars, geoVars, appVars>>

\* A finished asyncio task: returned, cancelled, or ended by an exception.
TaskEnded == {"done", "cancelled", "failed"}

(***************************************************************************)
(* Host environment and settings                                           *)
(***************************************************************************)
EnvFields == {"tshark", "ip", "iface", "iw_info", "monitor_mode", "arp_cmd",
              "lease_found", "lease_configured", "safe",
              "capture_enabled", "arp_enabled", "dhcp_enabled"}

AllEnvs == [EnvFields -> BOOLEAN]

\* A host with every tool installed and every detector enabled.
GoodEnv == [f \in EnvFields |-> f # "lease_configured"]

\* ProbeCapture.check_dependencies: tshark, then ip.
CaptureCheckDependencies == env["tshark"] /\ env["ip"]

\* ProbeCapture.check_interface: `ip link show` then `iw <if> info` both exit 0.
CaptureCheckInterface == env["iface"] /\ env["iw_info"]

\* ProbeCapture.set_monitor_mode: the monitor command or its iwconfig
\* alternative succeeds.
CaptureSetMonitorMode == env["monitor_mode"]

\* ARPMonitor.check_dependencies: `which arp` exits 0.
ArpCheckDependencies == env["arp_cmd"]

\* DHCPMonitor._find_lease_file, run by the constructor when no path is given.
FindLeaseFile == IF env["lease_found"] THEN "found" ELSE "none"

\* The is_running properties.
CaptureIsRunning == cap_running /\ cap_task = "set" /\ task_pc \notin TaskEnded
ArpIsRunning     == arp_running /\ arp_task = "set" /\ arp_pc \notin TaskEnded
DhcpIsRunning    == dhcp_running /\ dhcp_task = "set" /\ dhcp_pc \notin TaskEnded

(***************************************************************************)
(* State after construction of the singletons, before lifespan() runs.     *)
(***************************************************************************)
DetInit(envs) ==
    /\ env \in envs
    /\ capture_enabled = env["capture_enabled"]
    /\ ls_pc = "safety"
    /\ mgr_running = FALSE
    /\ cap_running = FALSE /\ cap_process = "none" /\ cap_task = "none"
    /\ start_pc = "idle" /\ stop_pc = "idle"
    /\ task_pc = "none" /\ task_cancel = FALSE
    /\ proc = "none" /\ proc_term = FALSE /\ proc_killed = FALSE
    /\ waited = "cur"
    /\ arp_running = FALSE /\ arp_task = "none" /\ arp_pc = "none"
    /\ arp_cancel = FALSE /\ arp_left = 0 /\ arp_stop_pc = "idle"
    /\ dhcp_running = FALSE /\ dhcp_task = "none" /\ dhcp_pc = "none"
    /\ dhcp_cancel = FALSE /\ dhcp_left = 0 /\ dhcp_stop_pc = "idle"
    /\ lease_file = FindLeaseFile
    /\ task_err = FALSE /\ arp_err = FALSE /\ dhcp_err = FALSE

(***************************************************************************)
(* ProbeCapture.start                                                      *)
(***************************************************************************)
\* From the call to the await of set_monitor_mode.
CaptureStartBegin ==
    /\ start_pc = "called"
    /\ start_pc' = IF cap_running THEN "returned"
                   ELSE IF ~CaptureCheckDependencies THEN "raised"
                   ELSE IF ~CaptureCheckInterface THEN "raised"
                   ELSE "monitor_mode"
    /\ UNCHANGED <<cap_running, cap_process, cap_task, stop_pc, task_pc,
                   task_cancel, proc, proc_term, proc_killed, waited, task_err>>
    /\ UNCHANGED <<env, lsVars, arpVars, dhcpVars, restVars>>

\* From the return of set_monitor_mode to the end of start().
StartFinishBody ==
    IF CaptureSetMonitorMode
    THEN /\ cap_running' = TRUE
         /\ cap_task' = "set"
         /\ task_pc' = "pending"
         /\ task_cancel' = FALSE
         /\ task_err' = FALSE
         /\ start_pc' = "returned"
    ELSE /\ start_pc' = "raised"
         /\ UNCHANGED <<cap_running, cap_task, task_pc, task_cancel, task_err>>

CaptureStartFinish ==
    /\ start_pc = "monitor_mode"
    /\ StartFinishBody
    /\ UNCHANGED <<cap_process, stop_pc, proc, proc_term, proc_killed, waited>>
    /\ UNCHANGED <<env, lsVars, arpVars, dhcpVars, restVars>>

(***************************************************************************)
(* ARPMonitor.start and DHCPMonitor.start: no await inside, one step each. *)
(***************************************************************************)
ArpStart ==
    IF ~arp_running /\ ArpCheckDependencies
    THEN /\ arp_running' = TRUE
         /\ arp_task' = "set"
         /\ arp_pc' = "pending"
         /\ arp_cancel' = FALSE
         /\ UNCHANGED <<arp_left, arp_stop_pc, arp_err>>
    ELSE UNCHANGED arpVars

DhcpStart(file) ==
    IF ~dhcp_running /\ file # "none"
    THEN /\ dhcp_running' = TRUE
         /\ dhcp_task' = "set"
         /\ dhcp_pc' = "pending"
         /\ dhcp_cancel' = FALSE
         /\ UNCHANGED <<dhcp_left, dhcp_stop_pc, dhcp_err>>
    ELSE UNCHANGED <<dhcp_running, dhcp_task, dhcp_pc, dhcp_cancel, dhcp_left,
                     dhcp_stop_pc, dhcp_err>>

(***************************************************************************)
(* lifespan(): the startup half                                            *)
(***************************************************************************)
\* _check_interface_safety clears settings.capture_enabled when unsafe.
LsSafety ==
    /\ ls_pc = "safety"
    /\ capture_enabled' = (capture_enabled /\ env["safe"])
    /\ ls_pc' = "wifi"
    /\ UNCHANGED <<env, mgr_running, capVars, arpVars, dhcpVars, restVars>>

\* `if settings.capture_enabled: try: await capture.start()`
LsWifi ==
    /\ ls_pc = "wifi"
    /\ start_pc = "idle"
    /\ IF capture_enabled
       THEN ls_pc' = "wifi_wait" /\ start_pc' = "called"
       ELSE ls_pc' = "arp" /\ UNCHANGED start_pc
    /\ UNCHANGED <<env, capture_enabled, mgr_running, cap_running, cap_process,
                   cap_task, stop_pc, task_pc, task_cancel, proc, proc_term,
                   proc_killed, waited, task_err, arpVars, dhcpVars, restVars>>

\* A lifespan() that lets the exception of capture.start() through.
LsAbortOnRaise(outcome) == IF outcome = "raised" THEN "crashed" ELSE "arp"

\* What lifespan() does when capture.start() came back: a raise is caught
\* and logged, and lifespan goes on to the ARP monitor either way.
LsAfterWifi(outcome) == "arp"

LsWifiDone ==
    /\ ls_pc = "wifi_wait"
    /\ start_pc \in {"returned", "raised"}
    /\ ls_pc' = LsAfterWifi(start_pc)
    /\ start_pc' = "idle"
    /\ UNCHANGED <<env, capture_enabled, mgr_running, cap_running, cap_process,
                   cap_task, stop_pc, task_pc, task_cancel, proc, proc_term,
                   proc_killed, waited, task_err, arpVars, dhcpVars, restVars>>

LsArp ==
    /\ ls_pc = "arp"
    /\ IF env["arp_enabled"] THEN ArpStart ELSE UNCHANGED arpVars
    /\ ls_pc' = "dhcp"
    /\ UNCHANGED <<env, capture_enabled, mgr_running, capVars, dhcpVars, restVars>>

\* `if settings.dhcp_lease_file: dhcp_monitor.lease_file = ...` then start().
LsDhcp ==
    /\ ls_pc = "dhcp"
    /\ IF env["dhcp_enabled"]
       THEN /\ lease_file' = IF env["lease_configured"] THEN "configured"
                             ELSE lease_file
            /\ DhcpStart(lease_file')
       ELSE UNCHANGED dhcpVars
    /\ ls_pc' = "manager"
    /\ UNCHANGED <<env, capture_enabled, mgr_running, capVars, arpVars, restVars>>

\* NotificationManager.start, then "ManoMonitor ready".
LsManager ==
    /\ ls_pc = "manager"
    /\ mgr_running' = TRUE
    /\ ls_pc' = "ready"
    /\ UNCHANGED <<env, capture_enabled, capVars, arpVars, dhcpVars, restVars>>

(***************************************************************************)
(* The _process_probes task driving the _capture_loop generator            *)
(***************************************************************************)
notCap == <<env, lsVars, arpVars, dhcpVars, restVars>>

\* `while self._running and self._process.stdout`: the generator ends when
\* _running is false; reading .stdout of a cleared _process raises outside
\* the try and ends the task.
LoopCheck(running, process) ==
    IF ~running THEN "done"
    ELSE IF process = "none" THEN "failed"
    ELSE "read"

\* First run of the coroutine, up to `await create_subprocess_exec(tshark)`.
TaskBegin ==
    /\ task_pc = "pending" /\ ~task_cancel
    /\ task_pc' = "spawn"
    /\ UNCHANGED <<cap_running, cap_process, cap_task, start_pc, stop_pc,
                   task_cancel, proc, proc_term, proc_killed, waited, task_err>>
    /\ UNCHANGED notCap

\* create_subprocess_exec returns the process, or raises (outside any try).
\* The new process replaces whatever _process referred to, also the process
\* a stop() is waiting on.
TaskSpawned ==
    /\ task_pc = "spawn" /\ ~task_cancel
    /\ \E ok \in BOOLEAN :
         IF ok
         THEN /\ cap_process' = "set"
              /\ proc' = "alive"
              /\ waited' = IF stop_pc # "wait" \/ waited # "cur" THEN waited
                            ELSE IF proc = "alive" THEN "old_alive"
                            ELSE "old_exited"
              /\ task_pc' = LoopCheck(cap_running, "set")
         ELSE /\ task_pc' = "failed"
              /\ UNCHANGED <<cap_process, proc, waited>>
    /\ UNCHANGED <<cap_running, cap_task, start_pc, stop_pc, task_cancel,
                   proc_term, proc_killed, task_err>>
    /\ UNCHANGED notCap

\* What `await wait_for(readline(), 1.0)` can give.
ReadResults == {"probe", "junk", "timeout", "eof_reaped", "eof_unreaped", "error"}

\* One pass of the while body after the read came back.
AfterRead(r) ==
    CASE r = "probe"        -> "store"
      [] r = "junk"         -> LoopCheck(cap_running, cap_process)
      [] r = "timeout"      -> LoopCheck(cap_running, cap_process)
      [] r = "eof_reaped"   -> IF cap_process = "none" THEN "errsleep" ELSE "done"
      [] r = "eof_unreaped" -> IF cap_process = "none" THEN "errsleep"
                               ELSE LoopCheck(cap_running, cap_process)
      [] r = "error"        -> "errsleep"

TaskRead ==
    /\ task_pc = "read" /\ ~task_cancel
    /\ \E r \in ReadResults :
         /\ r \in {"eof_reaped", "eof_unreaped"} => proc \in {"exited", "closed"}
         /\ task_pc' = AfterRead(r)
         /\ task_err' = (AfterRead(r) = "errsleep")
    /\ UNCHANGED <<cap_running, cap_process, cap_task, start_pc, stop_pc,
                   task_cancel, proc, proc_term, proc_killed, waited>>
    /\ UNCHANGED notCap

\* _process_probes body: the repository write commits or raises; the raise is
\* caught and logged, and the generator is resumed either way.
AfterStore(ok) == LoopCheck(cap_running, cap_process)

TaskStore ==
    /\ task_pc = "store" /\ ~task_cancel
    /\ \E ok \in BOOLEAN :
         /\ task_pc' = AfterStore(ok)
         /\ task_err' = ~ok
    /\ UNCHANGED <<cap_running, cap_process, cap_task, start_pc, stop_pc,
                   task_cancel, proc, proc_term, proc_killed, waited>>
    /\ UNCHANGED notCap

\* `except Exception: ... await asyncio.sleep(1)` of the capture loop.
TaskErrSleep ==
    /\ task_pc = "errsleep" /\ ~task_cancel
    /\ task_pc' = LoopCheck(cap_running, cap_process)
    /\ UNCHANGED <<cap_running, cap_process, cap_task, start_pc, stop_pc,
                   task_cancel, proc, proc_term, proc_killed, waited, task_err>>
    /\ UNCHANGED notCap

\* CancelledError is delivered at the await the task is suspended on; it is
\* no Exception, so no handler of the loop catches it.
TaskCancelled ==
    /\ task_cancel /\ task_pc \notin (TaskEnded \cup {"none"})
    /\ task_pc' = "cancelled"
    /\ task_cancel' = FALSE
    /\ UNCHANGED <<cap_running, cap_process, cap_task, start_pc, stop_pc,
                   proc, proc_term, proc_killed, waited, task_err>>
    /\ UNCHANGED notCap

\* tshark exits, on its own or on a signal it honours: the process _process
\* refers to, or the replaced one a stop() still waits on.
ProcExit ==
    /\ \E which \in {"cur", "old"} :
         IF which = "cur"
         THEN proc = "alive" /\ proc' = "exited" /\ UNCHANGED waited
         ELSE waited = "old_alive" /\ waited' = "old_exited" /\ UNCHANGED proc
    /\ UNCHANGED <<cap_running, cap_process, cap_task, start_pc, stop_pc,
                   task_pc, task_cancel, proc_term, proc_killed, task_err>>
    /\ UNCHANGED notCap

(***************************************************************************)
(* ProbeCapture.stop                                                       *)
(***************************************************************************)
\* `if self._task: self._task.cancel(); await self._task`
StopCancelTask ==
    IF cap_task = "set"
    THEN /\ task_cancel' = (task_pc \notin TaskEnded)
         /\ stop_pc' = "join"
    ELSE /\ stop_pc' = "returned"
         /\ UNCHANGED task_cancel

\* From the call to the first await.  Process.terminate() on a process whose
\* transport is already closed raises ProcessLookupError; on one that has
\* exited but whose transport is still open it does nothing.
CaptureStopBegin ==
    /\ stop_pc = "called"
    /\ cap_running' = FALSE
    /\ proc_killed' = FALSE
    /\ IF cap_process = "set"
       THEN \E closed \in BOOLEAN :
              /\ closed => proc \in {"exited", "closed"}
              /\ proc = "closed" => closed
              /\ IF closed
                 THEN /\ stop_pc' = "raised" /\ proc_term' = FALSE
                      /\ proc' = "closed"
                 ELSE /\ stop_pc' = "wait" /\ proc_term' = TRUE
                      /\ UNCHANGED proc
              /\ UNCHANGED task_cancel
       ELSE StopCancelTask /\ proc_term' = FALSE /\ UNCHANGED proc
    /\ UNCHANGED <<cap_process, cap_task, start_pc, task_pc, waited, task_err>>
    /\ UNCHANGED notCap

\* The process stop() waits on has not exited.
WaitedAlive == IF waited = "cur" THEN proc = "alive" ELSE waited = "old_alive"

\* A stop() that kills when the wait is over without looking at its outcome.
StopAlwaysKills ==
    /\ proc_killed' = TRUE
    /\ proc' = IF proc = "alive" THEN "exited" ELSE proc
    /\ waited' = "cur"
    /\ cap_process' = "none"
    /\ StopCancelTask

\* `await wait_for(self._process.wait(), 5.0)` is over: the process exited in
\* time, or the timeout fired and `self._process.kill()` is issued, which
\* reaches the process _process refers to by then.  Then the reference is
\* cleared and the task cancelled.  kill() raises ProcessLookupError, like
\* terminate(), when that process is a replacement that has exited and closed.
StopAfterWait ==
    \E closed \in BOOLEAN :
        /\ closed => (WaitedAlive /\ waited # "cur" /\ proc = "exited")
        /\ waited' = "cur"
        /\ IF closed
           THEN /\ stop_pc' = "raised"
                /\ proc' = "closed"
                /\ UNCHANGED <<proc_killed, cap_process, task_cancel>>
           ELSE /\ proc_killed' = WaitedAlive
                /\ proc' = IF WaitedAlive /\ proc = "alive" THEN "exited" ELSE proc
                /\ cap_process' = "none"
                /\ StopCancelTask

CaptureStopWaited ==
    /\ stop_pc = "wait"
    /\ StopAfterWait
    /\ UNCHANGED <<cap_running, cap_task, start_pc, task_pc, proc_term, task_err>>
    /\ UNCHANGED notCap

\* `await self._task` is over: CancelledError is swallowed, but the exception
\* of a task that had failed is re-raised before `self._task = None`.
StopAfterJoin ==
    IF task_pc = "failed"
    THEN stop_pc' = "raised" /\ UNCHANGED cap_task
    ELSE stop_pc' = "returned" /\ cap_task' = "none"

CaptureStopJoined ==
    /\ stop_pc = "join"
    /\ task_pc \in TaskEnded
    /\ StopAfterJoin
    /\ UNCHANGED <<cap_running, cap_process, start_pc, task_pc, task_cancel,
                   proc, proc_term, proc_killed, waited, task_err>>
    /\ UNCHANGED notCap

(***************************************************************************)
(* POST /capture/start and /capture/stop, one request at a time; a start    *)
(* request finds the task of an earlier start ended (a stop() that raised   *)
(* leaves its task to end on its own).                                      *)
(***************************************************************************)
ApiStartCapture ==
    /\ ls_pc = "ready" /\ start_pc = "idle" /\ stop_pc = "idle"
    /\ ~CaptureIsRunning
    /\ task_pc \in TaskEnded \cup {"none"}
    /\ start_pc' = "called"
    /\ UNCHANGED <<cap_running, cap_process, cap_task, stop_pc, task_pc,
                   task_cancel, proc, proc_term, proc_killed, waited, task_err>>
    /\ UNCHANGED notCap

ApiStartReturn ==
    /\ ls_pc = "ready" /\ start_pc \in {"returned", "raised"}
    /\ start_pc' = "idle"
    /\ UNCHANGED <<cap_running, cap_process, cap_task, stop_pc, task_pc,
                   task_cancel, proc, proc_term, proc_killed, waited, task_err>>
    /\ UNCHANGED notCap

ApiStopCapture ==
    /\ ls_pc = "ready" /\ start_pc = "idle" /\ stop_pc = "idle"
    /\ CaptureIsRunning
    /\ stop_pc' = "called"
    /\ UNCHANGED <<cap_running, cap_process, cap_task, start_pc, task_pc,
                   task_cancel, proc, proc_term, proc_killed, waited, task_err>>
    /\ UNCHANGED notCap

ApiStopReturn ==
    /\ ls_pc = "ready" /\ stop_pc \in {"returned", "raised"}
    /\ stop_pc' = "idle"
    /\ UNCHANGED <<cap_running, cap_process, cap_task, start_pc, task_pc,
                   task_cancel, proc, proc_term, proc_killed, waited, task_err>>
    /\ UNCHANGED notCap

(***************************************************************************)
(* ARPMonitor._monitor_loop                                                *)
(***************************************************************************)
notArp == <<env, lsVars, capVars, dhcpVars, restVars>>

\* `while self._running:` then _scan_network spawns `ip route show default`.
ArpLoopTest ==
    /\ arp_pc \in {"pending", "loop"} /\ ~arp_cancel
    /\ arp_pc' = IF arp_running THEN "route_wait" ELSE "done"
    /\ arp_err' = FALSE
    /\ UNCHANGED <<arp_running, arp_task, arp_cancel, arp_left, arp_stop_pc>>
    /\ UNCHANGED notArp

\* `await proc.communicate()` on `ip route` is over (it exited), or the spawn
\* raised: _scan_network swallows the exception and returns.
ArpRouteDone ==
    /\ arp_pc = "route_wait" /\ ~arp_cancel
    /\ \E spawned \in BOOLEAN :
         arp_pc' = IF spawned THEN "ping_wait" ELSE "arp_wait"
    /\ UNCHANGED <<arp_running, arp_task, arp_cancel, arp_left, arp_stop_pc,
                   arp_err>>
    /\ UNCHANGED notArp

\* `await proc.communicate()` on `ping -c 1 -b` is over.
ArpPingDone ==
    /\ arp_pc = "ping_wait" /\ ~arp_cancel
    /\ arp_pc' = "arp_wait"
    /\ UNCHANGED <<arp_running, arp_task, arp_cancel, arp_left, arp_stop_pc,
                   arp_err>>
    /\ UNCHANGED notArp

\* `await proc.communicate()` on `arp -n` is over: n parsed entries (none
\* when the spawn raised, which _get_arp_table swallows).
ArpTableDone ==
    /\ arp_pc = "arp_wait" /\ ~arp_cancel
    /\ \E n \in 0..MaxEntries :
         /\ arp_left' = n
         /\ arp_pc' = IF n > 0 THEN "store" ELSE "sleep"
    /\ UNCHANGED <<arp_running, arp_task, arp_cancel, arp_stop_pc, arp_err>>
    /\ UNCHANGED notArp

\* A poll loop that the exception of a write ends.
PollDiesOnError == "failed"

\* Where the poll loop goes when the write of one entry raised: the except
\* clause of the while body logs it and falls through to the sleep.
PollAfterError == "sleep"

\* One entry: create_or_update_asset inside get_db_context commits or raises.
ArpStore ==
    /\ arp_pc = "store" /\ ~arp_cancel
    /\ \E ok \in BOOLEAN :
         IF ok
         THEN /\ arp_left' = arp_left - 1
              /\ arp_pc' = IF arp_left > 1 THEN "store" ELSE "sleep"
              /\ UNCHANGED arp_err
         ELSE /\ arp_left' = 0
              /\ arp_pc' = PollAfterError
              /\ arp_err' = TRUE
    /\ UNCHANGED <<arp_running, arp_task, arp_cancel, arp_stop_pc>>
    /\ UNCHANGED notArp

\* `await asyncio.sleep(self._scan_interval)` is over.
ArpSleepDone ==
    /\ arp_pc = "sleep" /\ ~arp_cancel
    /\ arp_pc' = "loop"
    /\ UNCHANGED <<arp_running, arp_task, arp_cancel, arp_left, arp_stop_pc,
                   arp_err>>
    /\ UNCHANGED notArp

ArpCancelled ==
    /\ arp_cancel /\ arp_pc \notin (TaskEnded \cup {"none"})
    /\ arp_pc' = "cancelled"
    /\ arp_cancel' = FALSE
    /\ UNCHANGED <<arp_running, arp_task, arp_left, arp_stop_pc, arp_err>>
    /\ UNCHANGED notArp

\* ARPMonitor.stop up to `await self._task`.
ArpStopBegin ==
    /\ arp_stop_pc = "called"
    /\ arp_running' = FALSE
    /\ IF arp_task = "set"
       THEN arp_cancel' = (arp_pc \notin TaskEnded) /\ arp_stop_pc' = "join"
       ELSE UNCHANGED arp_cancel /\ arp_stop_pc' = "returned"
    /\ UNCHANGED <<arp_task, arp_pc, arp_left, arp_err>>
    /\ UNCHANGED notArp

ArpStopJoined ==
    /\ arp_stop_pc = "join" /\ arp_pc \in TaskEnded
    /\ arp_task' = "none"
    /\ arp_stop_pc' = "returned"
    /\ UNCHANGED <<arp_running, arp_pc, arp_cancel, arp_left, arp_err>>
    /\ UNCHANGED notArp

(***************************************************************************)
(* DHCPMonitor._monitor_loop                                               *)
(***************************************************************************)
notDhcp == <<env, lsVars, capVars, arpVars, restVars>>

\* `while self._running:` then _read_leases, which reads the file without
\* awaiting and returns [] on a missing file or a read error.
DhcpLoopTest ==
    /\ dhcp_pc \in {"pending", "loop"} /\ ~dhcp_cancel
    /\ \E n \in 0..MaxEntries :
         /\ dhcp_left' = IF dhcp_running THEN n ELSE 0
         /\ dhcp_pc' = IF ~dhcp_running THEN "done"
                       ELSE IF n > 0 THEN "store" ELSE "sleep"
    /\ dhcp_err' = FALSE
    /\ UNCHANGED <<dhcp_running, dhcp_task, dhcp_cancel, dhcp_stop_pc, lease_file>>
    /\ UNCHANGED notDhcp

DhcpStore ==
    /\ dhcp_pc = "store" /\ ~dhcp_cancel
    /\ \E ok \in BOOLEAN :
         IF ok
         THEN /\ dhcp_left' = dhcp_left - 1
              /\ dhcp_pc' = IF dhcp_left > 1 THEN "store" ELSE "sleep"
              /\ UNCHANGED dhcp_err
         ELSE /\ dhcp_left' = 0
              /\ dhcp_pc' = PollAfterError
              /\ dhcp_err' = TRUE
    /\ UNCHANGED <<dhcp_running, dhcp_task, dhcp_cancel, dhcp_stop_pc, lease_file>>
    /\ UNCHANGED notDhcp

DhcpSleepDone ==
    /\ dhcp_pc = "sleep" /\ ~dhcp_cancel
    /\ dhcp_pc' = "loop"
    /\ UNCHANGED <<dhcp_running, dhcp_task, dhcp_cancel, dhcp_left, dhcp_stop_pc,
                   lease_file, dhcp_err>>
    /\ UNCHANGED notDhcp

DhcpCancelled ==
    /\ dhcp_cancel /\ dhcp_pc \notin (TaskEnded \cup {"none"})
    /\ dhcp_pc' = "cancelled"
    /\ dhcp_cancel' = FALSE
    /\ UNCHANGED <<dhcp_running, dhcp_task, dhcp_left, dhcp_stop_pc, lease_file,
                   dhcp_err>>
    /\ UNCHANGED notDhcp

DhcpStopBegin ==
    /\ dhcp_stop_pc = "called"
    /\ dhcp_running' = FALSE
    /\ IF dhcp_task = "set"
       THEN dhcp_cancel' = (dhcp_pc \notin TaskEnded) /\ dhcp_stop_pc' = "join"
       ELSE UNCHANGED dhcp_cancel /\ dhcp_stop_pc' = "returned"
    /\ UNCHANGED <<dhcp_task, dhcp_pc, dhcp_left, lease_file, dhcp_err>>
    /\ UNCHANGED notDhcp

DhcpStopJoined ==
    /\ dhcp_stop_pc = "join" /\ dhcp_pc \in TaskEnded
    /\ dhcp_task' = "none"
    /\ dhcp_stop_pc' = "returned"
    /\ UNCHANGED <<dhcp_running, dhcp_pc, dhcp_cancel, dhcp_left, lease_file,
                   dhcp_err>>
    /\ UNCHANGED notDhcp

(***************************************************************************)
(* lifespan(): the shutdown half, after the yield                          *)
(***************************************************************************)
\* The server asks the application to shut down; no request is in flight.
LsShutdown ==
    /\ ls_pc = "ready" /\ start_pc = "idle" /\ stop_pc = "idle"
    /\ ls_pc' = "stop_wifi"
    /\ UNCHANGED <<env, capture_enabled, mgr_running, capVars, arpVars,
                   dhcpVars, restVars>>

\* `if capture.is_running: await capture.stop()`; an exception of stop()
\* leaves lifespan().
LsStopWifi ==
    /\ ls_pc \in {"stop_wifi", "stop_wifi_wait"}
    /\ IF ls_pc = "stop_wifi"
       THEN IF CaptureIsRunning
            THEN ls_pc' = "stop_wifi_wait" /\ stop_pc' = "called"
            ELSE ls_pc' = "stop_arp" /\ UNCHANGED stop_pc
       ELSE /\ stop_pc \in {"returned", "raised"}
            /\ ls_pc' = IF stop_pc = "raised" THEN "crashed" ELSE "stop_arp"
            /\ stop_pc' = "idle"
    /\ UNCHANGED <<env, capture_enabled, mgr_running, cap_running, cap_process,
                   cap_task, start_pc, task_pc, task_cancel, proc, proc_term,
                   proc_killed, waited, task_err, arpVars, dhcpVars, restVars>>

LsStopArp ==
    /\ ls_pc \in {"stop_arp", "stop_arp_wait"}
    /\ IF ls_pc = "stop_arp"
       THEN IF ArpIsRunning
            THEN ls_pc' = "stop_arp_wait" /\ arp_stop_pc' = "called"
            ELSE ls_pc' = "stop_dhcp" /\ UNCHANGED arp_stop_pc
       ELSE /\ arp_stop_pc = "returned"
            /\ ls_pc' = "stop_dhcp"
            /\ arp_stop_pc' = "idle"
    /\ UNCHANGED <<env, capture_enabled, mgr_running, arp_running, arp_task,
                   arp_pc, arp_cancel, arp_left, arp_err, capVars, dhcpVars,
                   restVars>>

\* DHCP monitor, then manager.stop() and close_db().
LsStopDhcp ==
    /\ ls_pc \in {"stop_dhcp", "stop_dhcp_wait"}
    /\ IF ls_pc = "stop_dhcp"
       THEN IF DhcpIsRunning
            THEN /\ ls_pc' = "stop_dhcp_wait" /\ dhcp_stop_pc' = "called"
                 /\ UNCHANGED mgr_running
            ELSE /\ ls_pc' = "stopped" /\ mgr_running' = FALSE
                 /\ UNCHANGED dhcp_stop_pc
       ELSE /\ dhcp_stop_pc = "returned"
            /\ ls_pc' = "stopped" /\ mgr_running' = FALSE
            /\ dhcp_stop_pc' = "idle"
    /\ UNCHANGED <<env, capture_enabled, dhcp_running, dhcp_task, dhcp_pc,
                   dhcp_cancel, dhcp_left, lease_file, dhcp_err, capVars,
                   arpVars, restVars>>

(***************************************************************************)
(* EnhancedVendorLookup                                                    *)
(***************************************************************************)
\* Ticks of the clock a run may see; one tick is one cache duration.
MaxTime == 1
\* cache_duration_days (90 by default), as one tick of the clock.
CacheDuration == 1
\* lookup() calls a run may make.
MaxLookups == 3

\* The coroutines that call lookup(): two detectors seeing the same device.
Callers == {"arp", "dhcp"}

\* MAC addresses as strings of characters.  Two spellings of one address
\* and one spelling of another.
MacLowerColon == <<"a","a",":","b","b",":","c","c",":","0","1",":","0","2",":","0","3">>
MacUpperDots  == <<"A","A","B","B",".","C","C","0","1",".","0","2","0","3">>
MacOther      == <<"0","2",":","0","0",":","0","0",":","0","0",":","0","0",":","0","1">>
RawMacs == {MacLowerColon, MacUpperDots, MacOther}

\* str.upper() on one character.
UpperChar(c) ==
    CASE c = "a" -> "A" [] c = "b" -> "B" [] c = "c" -> "C"
      [] c = "d" -> "D" [] c = "e" -> "E" [] c = "f" -> "F"
      [] OTHER -> c

\* re.sub(r"[:\-\.]", "", s): the separators are dropped.
RECURSIVE StripSeparators(_)
StripSeparators(s) ==
    IF s = <<>> THEN <<>>
    ELSE IF Head(s) \in {":", "-", "."} THEN StripSeparators(Tail(s))
    ELSE <<Head(s)>> \o StripSeparators(Tail(s))

\* s[i:i+2] for a 0-based i: a slice clipped to the string.
Slice2(s, i) ==
    SubSeq(s, i + 1, IF i + 2 <= Len(s) THEN i + 2 ELSE Len(s))

\* _normalize_mac: upper-case, drop separators, re-join the first six pairs
\* with colons.
NormalizeMac(m) ==
    LET up  == [k \in 1..Len(m) |-> UpperChar(m[k])]
        hex == StripSeparators(up)
    IN  Slice2(hex, 0) \o <<":">> \o Slice2(hex, 2) \o <<":">> \o
        Slice2(hex, 4) \o <<":">> \o Slice2(hex, 6) \o <<":">> \o
        Slice2(hex, 8) \o <<":">> \o Slice2(hex, 10)

\* The key lookup() uses for the cache.
CacheKey(m) == NormalizeMac(m)

\* The list with its first two sources swapped.
SwappedOrder == <<"macvendors.com", "ieee_oui", "maclookup.app", "macaddress.io">>

\* `sources = [...]` of lookup(), in list order.
SourceOrder == <<"ieee_oui", "macvendors.com", "maclookup.app", "macaddress.io">>

\* The two sources that return None at once when their key is not set.
NeedsKey(src) == src \in {"maclookup.app", "macaddress.io"}

\* VendorInfo, cut to the fields the resolver decides on.
InfoFrom(src) == [vendor |-> "Acme", source |-> src]
EmptyInfo     == [vendor |-> "", source |-> "none"]

\* _is_cache_valid
IsCacheValid(cached_time) == now - cached_time < CacheDuration

IdleCall == [pc |-> "idle", key |-> <<>>, idx |-> 0, result |-> EmptyInfo,
             invoked |-> <<>>, hit |-> FALSE, prior |-> {}, raced |-> FALSE,
             cached_at |-> 0]

VndInit ==
    /\ now = 0
    /\ vnd_keys \in {{}, {"maclookup.app", "macaddress.io"}}
    /\ vnd_cache = <<>>
    /\ vnd_async_lookup = FALSE
    /\ lk = [c \in Callers |-> IdleCall]
    /\ vnd_calls = 0

VndIdle ==
    /\ now = 0
    /\ vnd_keys = {}
    /\ vnd_cache = <<>>
    /\ vnd_async_lookup = FALSE
    /\ lk = [c \in Callers |-> IdleCall]
    /\ vnd_calls = 0

\* self._cache[key] = (info, datetime.utcnow())
CachePut(cache, key, info) ==
    [k \in (DOMAIN cache) \cup {key} |->
        IF k = key THEN [info |-> info, time |-> now] ELSE cache[k]]

\* The for loop of lookup() from source number i on, as far as it runs without
\* awaiting: a key-gated source without key returns None at once; past the
\* last source the empty info is cached and returned.
RECURSIVE NextSource(_, _)
NextSource(call, i) ==
    IF i > Len(SourceOrder)
    THEN [call EXCEPT !.pc = "done", !.idx = 0, !.result = EmptyInfo,
                      !.cached_at = now]
    ELSE IF NeedsKey(SourceOrder[i]) /\ SourceOrder[i] \notin vnd_keys
    THEN NextSource([call EXCEPT !.invoked =
                        Append(@, [source |-> SourceOrder[i], yielded |-> FALSE])],
                    i + 1)
    ELSE [call EXCEPT !.pc = "source", !.idx = i]

\* A source came back: `if result and result.vendor` caches and returns, any
\* other outcome (None, blank vendor, exception) moves on to the next source.
\* A source's own try/except turns its exception into None.
SourceOutcomes == {"vendor", "none", "error"}

\* What a source's exception would do if nothing caught it: lookup() raises.
SourceRaises(call) == [call EXCEPT !.pc = "raised", !.idx = 0]

\* A source raised (timeout, HTTP error, bad table): its own `except Exception`
\* returns None, and lookup()'s `except Exception: continue` stands behind it.
SourceFailed(call) == NextSource(call, call.idx + 1)

AfterSource(call, outcome) ==
    LET src  == SourceOrder[call.idx]
        seen == [call EXCEPT !.invoked =
                    Append(@, [source |-> src, yielded |-> outcome = "vendor"])]
    IN  IF outcome = "vendor"
        THEN [seen EXCEPT !.pc = "done", !.idx = 0, !.result = InfoFrom(src),
                          !.cached_at = now]
        ELSE IF outcome = "error"
        THEN SourceFailed(seen)
        ELSE NextSource(seen, call.idx + 1)

\* The cache after a call moved: a call that finished on a miss wrote its entry.
CacheAfter(before, after) ==
    IF after.pc = "done" /\ ~after.hit
    THEN CachePut(vnd_cache, after.key, after.result)
    ELSE vnd_cache

\* Completed lookups of the same address whose entry is still within the
\* cache duration when a new call starts.
PriorResults(c, m) ==
    {lk[d].result : d \in {d \in Callers \ {c} :
        /\ lk[d].pc = "done"
        /\ lk[d].key = NormalizeMac(m)
        /\ IsCacheValid(lk[d].cached_at)}}

InFlight(d) == lk[d].pc \notin {"idle", "done", "raised"}

\* lookup(m) from the call to its first await: cache check, then the IEEE
\* source up to `await update_vendors()` or `await lookup()`.
VndLookup(c, m) ==
    LET key   == CacheKey(m)
        fresh == [IdleCall EXCEPT !.key = key,
                                  !.prior = PriorResults(c, m)]
        racing == {d \in Callers \ {c} :
                     InFlight(d) /\ lk[d].key = NormalizeMac(m)}
    IN
    /\ lk[c].pc \in {"idle", "done"}
    /\ vnd_calls < MaxLookups
    /\ vnd_calls' = vnd_calls + 1
    /\ IF key \in DOMAIN vnd_cache /\ IsCacheValid(vnd_cache[key].time)
       THEN /\ lk' = [lk EXCEPT ![c] =
                        [fresh EXCEPT !.pc = "done", !.hit = TRUE,
                                      !.result = vnd_cache[key].info,
                                      !.cached_at = vnd_cache[key].time]]
            /\ UNCHANGED vnd_async_lookup
       ELSE /\ lk' = [d \in Callers |->
                        IF d = c
                        THEN [fresh EXCEPT
                                !.pc = IF ~vnd_async_lookup
                                       THEN "ieee_update" ELSE "source",
                                !.idx = 1, !.raced = racing # {}]
                        ELSE IF d \in racing THEN [lk[d] EXCEPT !.raced = TRUE]
                        ELSE lk[d]]
            /\ vnd_async_lookup' = TRUE
    /\ UNCHANGED <<now, vnd_keys, vnd_cache>>
    /\ UNCHANGED <<detVars, geoVars, appVars>>

\* `await self._async_lookup.update_vendors()` is over: the table is loaded,
\* or the download raised and _lookup_ieee_oui returns None.  The flag
\* _ieee_initialized set here is read only while _async_lookup is None, when
\* it is still False, so it decides nothing and is not kept.
VndIeeeUpdated(c) ==
    /\ lk[c].pc = "ieee_update"
    /\ \E ok \in BOOLEAN :
         LET after == IF ok THEN [lk[c] EXCEPT !.pc = "source"]
                      ELSE AfterSource(lk[c], "error")
         IN  /\ lk' = [lk EXCEPT ![c] = after]
             /\ vnd_cache' = CacheAfter(lk[c], after)
    /\ UNCHANGED <<now, vnd_keys, vnd_async_lookup, vnd_calls>>
    /\ UNCHANGED <<detVars, geoVars, appVars>>

\* The awaited source (table lookup or HTTP GET) came back.
VndSourceDone(c) ==
    /\ lk[c].pc = "source"
    /\ \E outcome \in SourceOutcomes :
         LET after == AfterSource(lk[c], outcome)
         IN  /\ lk' = [lk EXCEPT ![c] = after]
             /\ vnd_cache' = CacheAfter(lk[c], after)
    /\ UNCHANGED <<now, vnd_keys, vnd_async_lookup, vnd_calls>>
    /\ UNCHANGED <<detVars, geoVars, appVars>>

\* Time passes.
VndTick ==
    /\ now < MaxTime
    /\ now' = now + 1
    /\ UNCHANGED <<vnd_keys, vnd_cache, vnd_async_lookup, lk, vnd_calls>>
    /\ UNCHANGED <<detVars, geoVars, appVars>>

VendorNext ==
    \/ \E c \in Callers, m \in RawMacs : VndLookup(c, m)
    \/ \E c \in Callers : VndIeeeUpdated(c)
    \/ \E c \in Callers : VndSourceDone(c)
    \/ VndTick

(***************************************************************************)
(* geolocation.py: auto_detect_location and the GPS read                    *)
(***************************************************************************)
\* Sentences the device may send in one read.
MaxSentences == 2
\* Reads that fit into the timeout of one GPS read (15 s, about one sentence
\* a second).
MaxReads == 3

\* An NMEA sentence, cut to what the parsers decide on: its type and whether
\* it carries a fix (GGA quality > 0, RMC status A, coordinates that parse).
Sentences == [type : {"GGA", "RMC", "GSV"}, fix : BOOLEAN]

RECURSIVE SeqsUpTo(_, _)
SeqsUpTo(S, n) ==
    IF n = 0 THEN {<<>>}
    ELSE LET shorter == SeqsUpTo(S, n - 1)
         IN  shorter \cup {Append(q, x) : q \in shorter, x \in S}

\* None, and a GeoLocation tagged with what it was derived from.
NoLoc == [from |-> "none", idx |-> 0]
Loc(from, i) == [from |-> from, idx |-> i]

\* parse_nmea_gga / parse_nmea_rmc on sentence number i.
ParseNmeaGga(sentence, i) == IF sentence.fix THEN Loc("GGA", i) ELSE NoLoc
ParseNmeaRmc(sentence, i) == IF sentence.fix THEN Loc("RMC", i) ELSE NoLoc

\* The if / elif of both read loops: the sentence's parser by its prefix; a
\* location that comes back is returned at once.
ParseSentence(sentence, i) ==
    IF sentence.type = "GGA" THEN ParseNmeaGga(sentence, i)
    ELSE IF sentence.type = "RMC" THEN ParseNmeaRmc(sentence, i)
    ELSE NoLoc

GeoConfigs ==
    [gps_enabled : BOOLEAN,            \* argument gps_enabled
     devices     : BOOLEAN,            \* find_gps_devices() is not empty
     gps_device  : {"none", "missing", "present"},   \* argument gps_device
     reader      : {"serial", "cat"},  \* pyserial installed, or the cat fallback
     api_key     : BOOLEAN]            \* argument google_api_key

IdleGeo == [pc |-> "idle", i |-> 0, tool |-> 0, trace |-> <<>>, result |-> NoLoc]

GeoInit ==
    /\ geo_cfg \in GeoConfigs
    /\ gps_stream \in SeqsUpTo(Sentences, MaxSentences)
    /\ geo = IdleGeo

GeoIdle ==
    /\ geo_cfg = [gps_enabled |-> FALSE, devices |-> FALSE, gps_device |-> "none",
                  reader |-> "serial", api_key |-> FALSE]
    /\ gps_stream = <<>>
    /\ geo = IdleGeo

\* A stage is over: its outcome joins the trace.
StageOver(st, stage, loc) ==
    [st EXCEPT !.trace = Append(@, [stage |-> stage, loc |-> loc])]

\* `return await geolocate_via_ip()`: the GET is awaited.
StartIp(st) == [st EXCEPT !.pc = "ip"]

\* `if google_api_key:` geolocate_via_google up to the nmcli scan.
StartWifi(st) ==
    IF geo_cfg.api_key THEN [st EXCEPT !.pc = "scan", !.tool = 1]
    ELSE StartIp(st)

\* `if location: return location`, else on to the next stage.
AfterGps(st, loc) ==
    IF loc # NoLoc THEN [StageOver(st, "gps", loc) EXCEPT !.pc = "done", !.result = loc]
    ELSE StartWifi(StageOver(st, "gps", loc))

AfterWifi(st, loc) ==
    IF loc # NoLoc THEN [StageOver(st, "wifi", loc) EXCEPT !.pc = "done", !.result = loc]
    ELSE StartIp(StageOver(st, "wifi", loc))

\* A resolver that tries the GPS whatever its arguments say.
GpsAlways == TRUE

\* `if gps_enabled:` and `if gps_devices or gps_device:`
GpsWanted ==
    geo_cfg.gps_enabled /\ (geo_cfg.devices \/ geo_cfg.gps_device # "none")

\* auto_detect_location() from the call to its first await.  The GPS stage
\* returns None before any read when the configured device does not exist or
\* the serial port cannot be opened.
GeoCall ==
    /\ geo.pc = "idle"
    /\ \E opened \in BOOLEAN :
         geo' = IF ~GpsWanted THEN StartWifi(geo)
                ELSE IF geo_cfg.gps_device = "missing" \/ ~opened
                THEN AfterGps(geo, NoLoc)
                ELSE [geo EXCEPT !.pc = "gps_read", !.i = 0]
    /\ UNCHANGED <<geo_cfg, gps_stream>>
    /\ UNCHANGED <<detVars, vndVars, appVars>>

\* One pass of the read loop of _read_gps_serial / _read_gps_cat: the next
\* sentence, or nothing within the read timeout, or (cat) end of file; then
\* the deadline test of the while.
GpsRead ==
    /\ geo.pc = "gps_read"
    /\ \E eof \in BOOLEAN :
         LET n    == geo.i + 1
             have == n <= Len(gps_stream)
             loc  == IF have THEN ParseSentence(gps_stream[n], n) ELSE NoLoc
         IN  /\ eof => (~have /\ geo_cfg.reader = "cat")
             /\ geo' = IF loc # NoLoc THEN AfterGps(geo, loc)
                       ELSE IF eof \/ n >= MaxReads THEN AfterGps(geo, NoLoc)
                       ELSE [geo EXCEPT !.i = n]
    /\ UNCHANGED <<geo_cfg, gps_stream>>
    /\ UNCHANGED <<detVars, vndVars, appVars>>

\* `await proc.communicate()` of scan_wifi_networks is over for nmcli, iwlist
\* or iw: access points found, or none (exit code, empty list, spawn error)
\* and the next tool is tried; without access points geolocate_via_google
\* returns None.
GeoScanDone ==
    /\ geo.pc = "scan"
    /\ \E found \in BOOLEAN :
         geo' = IF found THEN [geo EXCEPT !.pc = "google"]
                ELSE IF geo.tool < 3 THEN [geo EXCEPT !.tool = @ + 1]
                ELSE AfterWifi(geo, NoLoc)
    /\ UNCHANGED <<geo_cfg, gps_stream>>
    /\ UNCHANGED <<detVars, vndVars, appVars>>

\* The POST to the Google API is over: a location, or an error status, a
\* timeout or an exception, all of which give None.
GeoGoogleDone ==
    /\ geo.pc = "google"
    /\ \E ok \in BOOLEAN :
         geo' = AfterWifi(geo, IF ok THEN Loc("google", 0) ELSE NoLoc)
    /\ UNCHANGED <<geo_cfg, gps_stream>>
    /\ UNCHANGED <<detVars, vndVars, appVars>>

\* The GET to ip-api.com is over; whatever it gave is returned.
GeoIpDone ==
    /\ geo.pc = "ip"
    /\ \E ok \in BOOLEAN :
         LET loc == IF ok THEN Loc("ip", 0) ELSE NoLoc
         IN  geo' = [StageOver(geo, "ip", loc) EXCEPT !.pc = "done", !.result = loc]
    /\ UNCHANGED <<geo_cfg, gps_stream>>
    /\ UNCHANGED <<detVars, vndVars, appVars>>

GeoNext == GeoCall \/ GpsRead \/ GeoScanDone \/ GeoGoogleDone \/ GeoIpDone

\* ---------------------------------------------------------------------
\* The assets database: remote signal reports (routes.py report_signals)
\* and the local detectors' create_or_update_asset (crud.py).  Each handler
\* runs in its own session (connection.py get_db / get_db_context); the
\* session factory has autoflush off, so a pending change reaches the
\* database at flush() or at the commit that ends the handler.

\* Entries in one report.
MaxBatch == 2

\* The handler calls of one behaviour, each with its own session: two, so
\* that they can follow one another or overlap.
Handlers == {"h1", "h2"}

\* api_key values: one belongs to a registered monitor, one to none.
RegisteredKeys == {"key1"}
ReportKeys == {"key1", "bogus"}

\* Optional[int]: None is the empty sequence, a value a sequence of one.
NoSignal == <<>>

\* reading dicts of a report: two spellings of one hardware address, an
\* entry without "mac_address", an entry without "signal_strength".
ReportEntries ==
    { [mac |-> MacLowerColon, sig |-> <<-60>>],
      [mac |-> MacUpperDots,  sig |-> <<-60>>],
      [mac |-> <<>>,          sig |-> <<-60>>],
      [mac |-> MacLowerColon, sig |-> NoSignal] }

\* What the local detectors hand to create_or_update_asset, by path.  The
\* probe line and the ARP table are matched against ([0-9a-fA-F:]{17}); a
\* dnsmasq lease yields whatever its second column holds.
DetectPaths == {"probe", "arp", "dhcp"}

ColonForm(m) ==
    /\ Len(m) = 17
    /\ \A k \in 1..17 :
         m[k] \in {"0","1","2","3","4","5","6","7","8","9",
                   "a","b","c","d","e","f","A","B","C","D","E","F",":"}

PathMatches(path, raw) == path = "dhcp" \/ ColonForm(raw)

\* str.upper()
Upper(m) == [k \in 1..Len(m) |-> UpperChar(m[k])]

\* A lookup that hands any request the first registered monitor.
FindAnyMonitor(key) == CHOOSE k \in RegisteredKeys : TRUE

\* select(Monitor).where(Monitor.api_key == key).scalar_one_or_none()
FindMonitor(key) == IF key \in RegisteredKeys THEN key ELSE "none"

IdleSession ==
    [pc |-> "idle", kind |-> "none", id |-> 0, key |-> "none",
     batch |-> <<>>, i |-> 1, added |-> 0, flushed |-> {}, pending |-> {},
     logs |-> {}]

DbInit ==
    /\ mon_seen = [k \in RegisteredKeys |-> 0]
    /\ assets = {}
    /\ sig_readings = {}
    /\ probe_logs = {}
    /\ db_lock = "none"
    /\ hd = [h \in Handlers |-> IdleSession]
    /\ db_calls = 0
    /\ call_log = <<>>

DbIdle == DbInit

notDb == <<detVars, vndVars, geoVars, posVars, mapVars, grpVars, extVars>>

\* The session a new handler call gets: the sessions are interchangeable,
\* so the first idle one.
FreeSession(h) ==
    /\ hd[h].pc = "idle"
    /\ h = "h2" => hd["h1"].pc # "idle"

\* The mac_address values a session's SELECT sees: the committed rows and
\* the rows the session itself has flushed.
VisibleMacs(h) == {a.mac : a \in assets} \cup hd[h].flushed

\* session.rollback() after an exception, then the response `status`.
Abort(h, status) ==
    /\ hd' = [hd EXCEPT ![h].pc = "done", ![h].flushed = {},
                        ![h].pending = {}, ![h].logs = {}]
    /\ call_log' = [call_log EXCEPT ![hd[h].id].status = status]
    /\ db_lock' = IF db_lock = h THEN "none" ELSE db_lock
    /\ UNCHANGED <<mon_seen, assets, sig_readings, probe_logs, db_calls>>

\* report_signals up to the loop: the key is looked up; without a monitor
\* the handler raises 401, with one it sets monitor.last_seen (pending).
ReportBegin(h, key, batch) ==
    /\ FreeSession(h)
    /\ db_calls' = db_calls + 1
    /\ LET id == db_calls + 1
           monitor == FindMonitor(key)
           entry == [kind |-> "report", key |-> key,
                     status |-> IF monitor = "none" THEN "401" ELSE "open",
                     count |-> 0]
       IN  /\ call_log' = Append(call_log, entry)
           /\ hd' = [hd EXCEPT ![h] =
                       [IdleSession EXCEPT
                          !.pc = IF monitor = "none" THEN "done" ELSE "loop",
                          !.kind = "report", !.id = id, !.key = monitor,
                          !.batch = batch]]
    /\ UNCHANGED <<mon_seen, assets, sig_readings, probe_logs, db_lock>>
    /\ UNCHANGED notDb

\* One detection of a local detector: the line is matched, then
\* create_or_update_asset is called inside `async with get_db_context()`.
DetectBegin(h, path, raw) ==
    /\ FreeSession(h)
    /\ PathMatches(path, raw)
    /\ db_calls' = db_calls + 1
    /\ call_log' = Append(call_log,
                     [kind |-> path, key |-> "local",
                      status |-> "open", count |-> 0])
    /\ hd' = [hd EXCEPT ![h] =
                [IdleSession EXCEPT !.pc = "loop", !.kind = path,
                   !.id = db_calls + 1, !.key = "local",
                   !.batch = <<[mac |-> raw, sig |-> <<-60>>]>>]]
    /\ UNCHANGED <<mon_seen, assets, sig_readings, probe_logs, db_lock>>
    /\ UNCHANGED notDb

\* `if not mac or signal is None: continue`: the first entry at or after i
\* that the loop does not skip, Len(batch) + 1 when there is none.
RECURSIVE NextRow(_, _)
NextRow(batch, i) ==
    IF i > Len(batch) THEN Len(batch) + 1
    ELSE IF Upper(batch[i].mac) = <<>> \/ batch[i].sig = NoSignal
         THEN NextRow(batch, i + 1)
         ELSE i

\* SignalReading(asset_id, monitor_id, ...) for entry i of call id.
ReadingRow(id, i, mac, monitor) ==
    [req |-> id, idx |-> i, mac |-> mac, monitor |-> monitor]

\* report_signals, one row: mac is upper-cased and the asset selected.  A
\* row whose asset exists gets its reading; a new asset goes to flush().
ReportSelect(h) ==
    /\ hd[h].pc = "loop" /\ hd[h].kind = "report"
    /\ NextRow(hd[h].batch, hd[h].i) <= Len(hd[h].batch)
    /\ LET i   == NextRow(hd[h].batch, hd[h].i)
           mac == Upper(hd[h].batch[i].mac)
           s   == [hd[h] EXCEPT !.i = i]
       IN  hd' = [hd EXCEPT ![h] =
                    IF mac \in VisibleMacs(h)
                    THEN [s EXCEPT
                            !.pending = @ \cup {ReadingRow(s.id, i, mac, s.key)},
                            !.added = @ + 1,
                            !.i = i + 1]
                    ELSE [s EXCEPT !.pc = "flush"]]
    /\ UNCHANGED <<mon_seen, assets, sig_readings, probe_logs, db_lock,
                   db_calls, call_log>>
    /\ UNCHANGED notDb

\* db.add(asset); await db.flush(): the INSERT takes the write lock, and
\* the unique index on mac_address refuses a row another session has
\* committed since the SELECT (IntegrityError, answered with 500).
ReportFlush(h) ==
    /\ hd[h].pc = "flush" /\ hd[h].kind = "report"
    /\ db_lock \in {"none", h}
    /\ LET s   == hd[h]
           mac == Upper(s.batch[s.i].mac)
       IN  IF mac \in {a.mac : a \in assets}
           THEN Abort(h, "500")
           ELSE /\ hd' = [hd EXCEPT ![h] =
                            [s EXCEPT
                               !.pc = "loop",
                               !.flushed = @ \cup {mac},
                               !.pending = @ \cup
                                   {ReadingRow(s.id, s.i, mac, s.key)},
                               !.added = @ + 1,
                               !.i = s.i + 1]]
                /\ db_lock' = h
                /\ UNCHANGED <<mon_seen, assets, sig_readings, probe_logs,
                               db_calls, call_log>>
    /\ UNCHANGED notDb

\* create_or_update_asset: mac is upper-cased and the asset selected; an
\* existing asset is updated and a ProbeLog added, a new one goes to the
\* vendor lookup and flush().
DetectSelect(h) ==
    /\ hd[h].pc = "loop" /\ hd[h].kind \in DetectPaths
    /\ hd[h].i = 1
    /\ LET s   == hd[h]
           mac == Upper(s.batch[1].mac)
       IN  hd' = [hd EXCEPT ![h] =
                    IF mac \in VisibleMacs(h)
                    THEN [s EXCEPT !.logs = @ \cup {[req |-> s.id, mac |-> mac]},
                                   !.added = 1, !.i = 2]
                    ELSE [s EXCEPT !.pc = "flush"]]
    /\ UNCHANGED <<mon_seen, assets, sig_readings, probe_logs, db_lock,
                   db_calls, call_log>>
    /\ UNCHANGED notDb

\* create_or_update_asset after lookup_vendor: db.add(asset); flush().  The
\* IntegrityError of a lost race leaves the detector's `async with`, is
\* rolled back there and logged by the detector loop.
DetectFlush(h) ==
    /\ hd[h].pc = "flush" /\ hd[h].kind \in DetectPaths
    /\ db_lock \in {"none", h}
    /\ LET s   == hd[h]
           mac == Upper(s.batch[1].mac)
       IN  IF mac \in {a.mac : a \in assets}
           THEN Abort(h, "error")
           ELSE /\ hd' = [hd EXCEPT ![h] =
                            [s EXCEPT !.pc = "loop",
                                      !.flushed = @ \cup {mac},
                                      !.logs = @ \cup {[req |-> s.id, mac |-> mac]},
                                      !.added = 1, !.i = 2]]
                /\ db_lock' = h
                /\ UNCHANGED <<mon_seen, assets, sig_readings, probe_logs,
                               db_calls, call_log>>
    /\ UNCHANGED notDb

\* The handler returns and get_db / get_db_context commits the session:
\* the flushed assets, the readings, the probe logs and, for a report, the
\* monitor's last_seen become visible together.
SessionCommit(h) ==
    /\ hd[h].pc = "loop"
    /\ NextRow(hd[h].batch, hd[h].i) > Len(hd[h].batch)
    /\ db_lock \in {"none", h}
    /\ LET s == hd[h]
       IN  /\ assets' = assets \cup {[mac |-> m, by |-> s.id] : m \in s.flushed}
           /\ sig_readings' = sig_readings \cup s.pending
           /\ probe_logs' = probe_logs \cup s.logs
           /\ mon_seen' = IF s.kind = "report"
                          THEN [mon_seen EXCEPT ![s.key] = s.id]
                          ELSE mon_seen
           /\ call_log' = [call_log EXCEPT ![s.id].status = "200",
                                           ![s.id].count = s.added]
           /\ hd' = [hd EXCEPT ![h].pc = "done", ![h].flushed = {},
                               ![h].pending = {}, ![h].logs = {}]
    /\ db_lock' = "none"
    /\ UNCHANGED db_calls
    /\ UNCHANGED notDb

\* Every report of at most MaxBatch entries.
Batches == UNION {[1..n -> ReportEntries] : n \in 0..MaxBatch}

DbNext ==
    \/ \E h \in Handlers, key \in ReportKeys, batch \in Batches :
         ReportBegin(h, key, batch)
    \/ \E h \in Handlers, path \in DetectPaths,
          raw \in {MacLowerColon, MacUpperDots} :
         DetectBegin(h, path, raw)
    \/ \E h \in Handlers : ReportSelect(h)
    \/ \E h \in Handlers : ReportFlush(h)
    \/ \E h \in Handlers : DetectSelect(h)
    \/ \E h \in Handlers : DetectFlush(h)
    \/ \E h \in Handlers : SessionCommit(h)

\* ---------------------------------------------------------------------
\* Positioning (utils/positioning.py).  Lengths are in half metres, so the
\* clamp [0.5 m, 100 m] is 1..200; accuracies are in twentieths of a metre,
\* so the 1.0 m floor is 20; confidences are fractions of tenths.  The
\* monitors stand on one line, at whole half metres.

\* Monitor readings in one calculate_position call.
MaxMonitors == 3

TxPower == -59

\* floor(2 * 10 ** (x / 30)) for x = 1..60: math.pow(10, exponent) with
\* path_loss_exponent 3.0, in half metres, x = tx_power - signal_dbm.
PathLossTable ==
    <<2, 2, 2, 2, 2, 3, 3, 3, 3, 4, 4, 5, 5, 5, 6, 6, 7, 7, 8, 9,
      10, 10, 11, 12, 13, 14, 15, 17, 18, 20, 21, 23, 25, 27, 29, 31, 34, 36,
      39, 43, 46, 50, 54, 58, 63, 68, 73, 79, 85, 92, 100, 108, 116, 126,
      136, 147, 158, 171, 185, 200>>

\* signal_to_distance: 0.5 m at or above tx_power, else the path-loss
\* distance clamped to [0.5 m, 100 m].
SignalToDistance(signal_dbm) ==
    IF signal_dbm >= TxPower THEN 1
    ELSE IF TxPower - signal_dbm > Len(PathLossTable) THEN 200
    ELSE PathLossTable[TxPower - signal_dbm]

MonitorPositions == {0, 5, 12}
ModelDistances == {1, 2, 3, 6, 200}

\* MonitorReading: estimated_distance 0 stands for None (and for 0.0, which
\* `or` treats alike).
MonitorReadings ==
    [x : MonitorPositions, est : ModelDistances, sig : {-70}]
      \cup [x : MonitorPositions, est : {0}, sig : {-59, -89}]

NoEstimate ==
    [branch |-> "none", acc |-> 0, conf_n |-> 0, conf_d |-> 1,
     shift_n |-> 0, shift_d |-> 1]

\* PositionEstimate.  shift_n / shift_d is how far from the first reading's
\* monitor, towards the second's, the location of the disjoint branch lies
\* (half metres); the other branches' locations are not modelled and carry
\* 0 / 1.
Estimate(branch, acc, conf) ==
    [branch |-> branch, acc |-> acc, conf_n |-> conf, conf_d |-> 1,
     shift_n |-> 0, shift_d |-> 1]

\* weight1 = 1 - (d1 / total) if total > 0 else 0.5
Weight1(d1, d2) ==
    IF d1 + d2 > 0 THEN [n |-> (d1 + d2) - d1, d |-> d1 + d2]
    ELSE [n |-> 1, d |-> 2]

\* reading.estimated_distance or signal_to_distance(reading.signal_strength)
ReadingDistance(r) == IF r.est # 0 THEN r.est ELSE SignalToDistance(r.sig)

Abs(n) == IF n < 0 THEN -n ELSE n
Max2(a, b) == IF a > b THEN a ELSE b
Min2(a, b) == IF a < b THEN a ELSE b

\* floor(sqrt(n)), searched in lo..hi.
RECURSIVE ISqrtIn(_, _, _)
ISqrtIn(n, lo, hi) ==
    IF lo >= hi THEN lo
    ELSE LET mid == (lo + hi + 1) \div 2
         IN  IF mid * mid <= n THEN ISqrtIn(n, mid, hi)
             ELSE ISqrtIn(n, lo, mid - 1)

\* The two comparisons of bilaterate with tangent circles counted as
\* disjoint or nested.
CircleCaseClosed(d, d1, d2) ==
    IF d >= d1 + d2 THEN "disjoint"
    ELSE IF d <= Abs(d1 - d2) THEN "nested"
    ELSE "intersect"

\* `if monitor_distance > d1 + d2` ... `if monitor_distance < abs(d1 - d2)`
CircleCase(d, d1, d2) ==
    IF d > d1 + d2 THEN "disjoint"
    ELSE IF d < Abs(d1 - d2) THEN "nested"
    ELSE "intersect"

\* (2 * d * h) ** 2 for h_squared = d1*d1 - a*a, a = (d1*d1 - d2*d2 + d*d) /
\* (2*d), with `if h_squared < 0: h_squared = 0`.
ChordNumerator(d, d1, d2) ==
    LET n == 4 * d * d * d1 * d1
               - (d1 * d1 - d2 * d2 + d * d) * (d1 * d1 - d2 * d2 + d * d)
    IN  IF n < 0 THEN 0 ELSE n

\* `h > 0.5`: h above one half metre.
SharpIntersection(d, d1, d2) == ChordNumerator(d, d1, d2) > 4 * d * d

\* h in twentieths of a metre, rounded down: the half distance between the
\* two intersection points.
HalfChord(d, d1, d2) ==
    LET n == ChordNumerator(d, d1, d2)
        q == n \div (4 * d * d)
        r == n % (4 * d * d)
    IN  ISqrtIn(100 * q + (100 * r) \div (4 * d * d), 0, 2048)

\* bilaterate(reading1, reading2)
Bilaterate(r1, r2) ==
    LET d1 == ReadingDistance(r1)
        d2 == ReadingDistance(r2)
        d  == Abs(r1.x - r2.x)
        case == CircleCase(d, d1, d2)
    IN  IF d = 0 THEN NoEstimate
        ELSE IF case = "disjoint"
             THEN \* midpoint_dist = monitor_distance * weight1
                  [Estimate("disjoint", 10 * Max2(d1, d2), 3)
                     EXCEPT !.shift_n = d * Weight1(d1, d2).n,
                            !.shift_d = Weight1(d1, d2).d]
        ELSE IF case = "nested"
             THEN Estimate("nested", 10 * Min2(d1, d2), 4)
        ELSE Estimate("intersect", Max2(HalfChord(d, d1, d2), 20),
                      IF SharpIntersection(d, d1, d2) THEN 7 ELSE 5)

\* The index pairs of the double loop of calculate_position.
MonitorPairs(n) == {p \in (1..n) \X (1..n) : p[1] < p[2]}

RECURSIVE SumOver(_, _)
SumOver(S, f) ==
    IF S = {} THEN 0
    ELSE LET p == CHOOSE q \in S : TRUE
         IN  f[p] + SumOver(S \ {p}, f)

\* The divisor of the overall confidence taken as the number of pairs.
CountAllPairs(n, estimates) == Cardinality(MonitorPairs(n))

\* len(estimates): the pairs whose bilateration returned an estimate.
CountEstimates(n, estimates) == Cardinality(estimates)

\* calculate_position(readings)
CalculatePosition(readings) ==
    LET n == Len(readings)
    IN  IF n < 1 THEN NoEstimate
        ELSE IF n = 1
             THEN Estimate("single", 10 * 2 * ReadingDistance(readings[1]), 2)
        ELSE IF n = 2 THEN Bilaterate(readings[1], readings[2])
        ELSE
          LET est == [p \in MonitorPairs(n) |->
                        Bilaterate(readings[p[1]], readings[p[2]])]
              estimates == {p \in MonitorPairs(n) : est[p] # NoEstimate}
              total_weight == SumOver(estimates, [p \in estimates |-> est[p].conf_n])
              weighted == SumOver(estimates,
                            [p \in estimates |-> est[p].acc * est[p].conf_n])
              count == CountEstimates(n, estimates)
          IN  IF estimates = {} \/ total_weight = 0 THEN NoEstimate
              ELSE [branch |-> "centroid",
                    acc |-> weighted \div total_weight,
                    conf_n |-> IF total_weight >= 10 * count
                               THEN 10 * count ELSE total_weight,
                    conf_d |-> count,
                    shift_n |-> 0, shift_d |-> 1]

\* One calculate_position call on every list of up to MaxMonitors readings.
PosInit ==
    /\ pos_in \in UNION {[1..n -> MonitorReadings] : n \in 0..MaxMonitors}
    /\ pos_out = Estimate("pending", 0, 0)

PosIdle == pos_in = <<>> /\ pos_out = Estimate("idle", 0, 0)

PosCalc ==
    /\ pos_out.branch = "pending"
    /\ pos_out' = CalculatePosition(pos_in)
    /\ UNCHANGED pos_in
    /\ UNCHANGED <<detVars, vndVars, geoVars, dbVars, mapVars, grpVars, extVars>>

PosNext == PosCalc

\* ---------------------------------------------------------------------
\* The map endpoint (routes.py get_map_data), for one asset: the recent
\* readings are averaged per monitor, positioned, and the asset is placed.

\* Rows of signal_readings the asset has.
MaxRows == 3

MonitorIds == {1, 2, 3}

\* Monitor.latitude/longitude: monitors 1 and 3 stand at one place.
MonitorAt(mid) == CASE mid = 1 -> 0 [] mid = 2 -> 5 [] OTHER -> 0

\* The rows `Monitor.is_active == True` can select.
ActiveSets == {{}, {1}, {1, 2}, {1, 2, 3}}

\* settings.signal_averaging_window (default 5), at sizes MaxRows exceeds.
AveragingWindows == {1, 2}

ReadingRows == [mon : MonitorIds, sig : {-60, -89}]

\* asset.last_latitude / position_accuracy (acc 0: no stored position),
\* asset.is_present, asset.last_signal_strength (0: None).
AssetStates == [acc : {0, 60}, present : BOOLEAN, last_signal : {0, -60}]

DefaultAccuracy == 200

NoPlace == [source |-> "pending", acc |-> 0, at |-> <<>>, before |-> <<>>,
            after |-> <<>>]

\* select(SignalReading).where(timestamp >= cutoff).order_by(desc(timestamp))
\* on rows kept in the order they were written: the rows from index cut
\* on, newest first.
RecentReadings(rows, cut) ==
    [k \in 1..(Len(rows) + 1 - cut) |-> rows[Len(rows) + 1 - k]]

\* The grouping loop: a reading joins its monitor's list while the list is
\* shorter than the averaging window.
RECURSIVE GroupByMonitor(_, _, _)
GroupByMonitor(readings, groups, window) ==
    IF readings = <<>> THEN groups
    ELSE LET r == Head(readings)
             known == {k \in 1..Len(groups) : groups[k].mon = r.mon}
         IN  IF known = {}
             THEN GroupByMonitor(Tail(readings),
                                 Append(groups, [mon |-> r.mon, sigs |-> <<r.sig>>]),
                                 window)
             ELSE LET k == CHOOSE j \in known : TRUE
                  IN  GroupByMonitor(Tail(readings),
                        IF Len(groups[k].sigs) < window
                        THEN [groups EXCEPT ![k].sigs = Append(@, r.sig)]
                        ELSE groups,
                        window)

RECURSIVE SeqSum(_)
SeqSum(q) == IF q = <<>> THEN 0 ELSE Head(q) + SeqSum(Tail(q))

\* An average that keeps the newest reading only.
NewestSignal(sigs) == Head(sigs)

\* sum(r.signal_strength for r in readings_list) // len(readings_list)
AverageSignal(sigs) == SeqSum(sigs) \div Len(sigs)

\* The MonitorReading built for one monitor's list.
AveragedReading(g) ==
    LET avg_signal == AverageSignal(g.sigs)
    IN  [mon |-> g.mon, x |-> MonitorAt(g.mon), sig |-> avg_signal,
         est |-> SignalToDistance(avg_signal)]

RECURSIVE PositionReadings(_, _)
PositionReadings(groups, active) ==
    IF groups = <<>> THEN <<>>
    ELSE IF Head(groups).mon \in active
         THEN <<AveragedReading(Head(groups))>>
                \o PositionReadings(Tail(groups), active)
         ELSE PositionReadings(Tail(groups), active)

MapInit ==
    /\ map_cfg \in [active : ActiveSets, window : AveragingWindows]
    /\ map_rows \in UNION {[1..n -> ReadingRows] : n \in 0..MaxRows}
    /\ map_cut \in 1..(Len(map_rows) + 1)
    /\ map_pc = "query"
    /\ map_fed = <<>>
    /\ map_out = NoPlace

MapIdle ==
    /\ map_cfg = [active |-> {}, window |-> 1]
    /\ map_rows = <<>> /\ map_cut = 1
    /\ map_pc = "idle" /\ map_fed = <<>> /\ map_out = NoPlace

notMap == <<detVars, vndVars, geoVars, dbVars, posVars, grpVars, extVars>>

\* Lines 780-822: the query and the averaging.  `readings` is not used
\* after the grouping loop.
MapAverage ==
    /\ map_pc = "query"
    /\ map_fed' =
         IF map_cut <= Len(map_rows) /\ map_cfg.active # {}
         THEN PositionReadings(
                GroupByMonitor(RecentReadings(map_rows, map_cut), <<>>,
                               map_cfg.window),
                map_cfg.active)
         ELSE <<>>
    /\ map_pc' = "place"
    /\ UNCHANGED <<map_cfg, map_rows, map_cut, map_out>>
    /\ UNCHANGED notMap

\* A placement that looks at the stored position before the readings.
PlaceStoredFirst(estimate, single, asset, monitors) ==
    IF asset.acc # 0 THEN "stored"
    ELSE IF estimate # NoEstimate THEN "estimate"
    ELSE IF single /\ monitors # {} THEN "single"
    ELSE IF asset.present /\ monitors # {} THEN "fallback"
    ELSE "none"

\* Lines 824-876: which branch sets lat/lon.
PlaceSource(estimate, single, asset, monitors) ==
    IF estimate # NoEstimate THEN "estimate"
    ELSE IF single /\ monitors # {} THEN "single"
    ELSE IF asset.acc # 0 THEN "stored"
    ELSE IF asset.present /\ monitors # {} THEN "fallback"
    ELSE "none"

\* monitors[0]: the first row of select(Monitor).where(is_active), which
\* the database returns in primary key order.
FirstMonitor(monitors) == CHOOSE m \in monitors : \A o \in monitors : m <= o

\* Lines 824-890 for an asset in state `asset`; the query result is dropped
\* with the loop iteration.  `at` is the place of the monitor the marker is
\* drawn at, for the two branches that draw it at a monitor.
MapPlace ==
    /\ map_pc = "place"
    /\ \E asset \in AssetStates :
         LET n == Len(map_fed)
             estimate == IF n >= 2 THEN CalculatePosition(map_fed)
                         ELSE NoEstimate
             source == PlaceSource(estimate, n = 1, asset, map_cfg.active)
             acc == CASE source = "estimate" -> estimate.acc
                      [] source = "single" ->
                           10 * SignalToDistance(map_fed[1].sig)
                      [] source = "stored" -> asset.acc
                      [] source = "fallback" ->
                           IF asset.last_signal # 0
                           THEN 10 * SignalToDistance(asset.last_signal)
                           ELSE DefaultAccuracy
                      [] OTHER -> 0
         IN  map_out' = [source |-> source, acc |-> acc,
                         at |-> IF source \in {"single", "fallback"}
                                THEN <<MonitorAt(FirstMonitor(map_cfg.active))>>
                                ELSE <<>>,
                         before |-> asset,
                         after |-> IF source = "estimate"
                                   THEN [asset EXCEPT !.acc = estimate.acc]
                                   ELSE asset]
    /\ map_pc' = "done"
    /\ map_rows' = <<>> /\ map_cut' = 1
    /\ UNCHANGED <<map_cfg, map_fed>>
    /\ UNCHANGED notMap

MapNext == MapAverage \/ MapPlace

\* ---------------------------------------------------------------------
\* The randomized-MAC grouper (utils/mac_fingerprinting.py): one
\* group_randomized_macs call on an asset, against the groups that exist.
\* Scores are fractions [n, d]; times are whole ticks.

\* DeviceGroup rows that exist before the call.
MaxGroups == 2

\* Calls of group_randomized_macs for the asset.
MaxGroupCalls == 2

\* min_confidence = 0.6, in tenths.
MinConfidence == 6

\* datetime.utcnow() during the call; every stored last_seen is earlier.
GroupNow == 4

MacGlobal == <<"A","4",":","0","0",":","0","0",":","0","0",":","0","0",":","0","9">>

\* int(c, 16) for one digit, -1 for a character int() rejects.
HexDigit(c) ==
    CASE c = "0" -> 0 [] c = "1" -> 1 [] c = "2" -> 2 [] c = "3" -> 3
      [] c = "4" -> 4 [] c = "5" -> 5 [] c = "6" -> 6 [] c = "7" -> 7
      [] c = "8" -> 8 [] c = "9" -> 9
      [] c \in {"a", "A"} -> 10 [] c \in {"b", "B"} -> 11
      [] c \in {"c", "C"} -> 12 [] c \in {"d", "D"} -> 13
      [] c \in {"e", "E"} -> 14 [] c \in {"f", "F"} -> 15
      [] OTHER -> -1

\* mac_address.split(":")[0]
RECURSIVE FirstField(_)
FirstField(m) ==
    IF m = <<>> \/ Head(m) = ":" THEN <<>>
    ELSE <<Head(m)>> \o FirstField(Tail(m))

\* int(s, 16), -1 for ValueError.
RECURSIVE HexValue(_, _)
HexValue(s, acc) ==
    IF s = <<>> THEN acc
    ELSE IF HexDigit(Head(s)) < 0 THEN -1
    ELSE HexValue(Tail(s), 16 * acc + HexDigit(Head(s)))

\* is_randomized_mac: bit 1 of the first octet; False on ValueError.
IsRandomizedMac(mac_address) ==
    LET field == FirstField(mac_address)
        first_byte == IF field = <<>> THEN -1 ELSE HexValue(field, 0)
    IN  first_byte >= 0 /\ (first_byte \div 2) % 2 = 1

\* DeviceFingerprint: avg_signal_strength (0: None), avg_probe_interval
\* (0: None), common_ssids, vendor_prefix ("": None).
EmptyPrint == [sig |-> 0, interval |-> 0, ssids |-> {}, prefix |-> ""]
Fingerprints ==
    { EmptyPrint,
      [sig |-> -60, interval |-> 30, ssids |-> {"a"}, prefix |-> "p1"],
      [sig |-> -65, interval |-> 60, ssids |-> {"a", "b"}, prefix |-> "p1"],
      [sig |-> -60, interval |-> 30, ssids |-> {"a", "b"}, prefix |-> "p2"],
      [sig |-> -80, interval |-> 0, ssids |-> {}, prefix |-> ""] }

\* calculate_similarity_score as the fraction score / factors, with score
\* in units of 1 / (100 * max interval * |ssid union|) and factors in
\* tenths; 0 / 1 when nothing is compared.
SimilarityScore(fp1, fp2) ==
    LET both_sig == fp1.sig # 0 /\ fp2.sig # 0
        both_int == fp1.interval > 0 /\ fp2.interval > 0
        both_ssid == fp1.ssids # {} /\ fp2.ssids # {}
        both_pre == fp1.prefix # "" /\ fp2.prefix # ""
        diff == Abs(fp1.sig - fp2.sig)
        big == IF both_int THEN Max2(fp1.interval, fp2.interval) ELSE 1
        small == IF both_int THEN Min2(fp1.interval, fp2.interval) ELSE 1
        union == IF both_ssid THEN Cardinality(fp1.ssids \cup fp2.ssids) ELSE 1
        inter == Cardinality(fp1.ssids \cap fp2.ssids)
        score ==
            (IF both_sig /\ diff <= 10 THEN 4 * (10 - diff) * big * union ELSE 0)
          + (IF both_int THEN 2 * small * 10 * union ELSE 0)
          + (IF both_ssid THEN 3 * inter * 10 * big ELSE 0)
          + (IF both_pre /\ fp1.prefix = fp2.prefix THEN 10 * big * union ELSE 0)
        factors ==
            (IF both_sig THEN 4 ELSE 0) + (IF both_int THEN 2 ELSE 0)
          + (IF both_ssid THEN 3 ELSE 0) + (IF both_pre THEN 1 ELSE 0)
    IN  IF factors > 0 THEN [n |-> score, d |-> 10 * factors * big * union]
        ELSE [n |-> 0, d |-> 1]

\* A comparison that lets a later group of equal or lower score win.
LastAboveThreshold(s, best) == TRUE

\* `similarity > best_score`
BetterScore(s, best) == s.n * best.d > best.n * s.d

\* The loop of find_matching_device_group from group i on: the index of
\* best_match (0: None) and best_score.  A group without fingerprint_data
\* is passed over.
RECURSIVE BestMatch(_, _, _, _)
BestMatch(groups, fp, i, best) ==
    IF i > Len(groups) THEN best
    ELSE LET g == groups[i]
             s == SimilarityScore(fp, g.fp)
         IN  IF g.has_fp /\ 10 * s.n >= MinConfidence * s.d
                /\ BetterScore(s, best.score)
             THEN BestMatch(groups, fp, i + 1, [idx |-> i, score |-> s])
             ELSE BestMatch(groups, fp, i + 1, best)

NoMatch == [idx |-> 0, score |-> [n |-> 0, d |-> 1]]

GroupRows ==
    [fp : Fingerprints \ {EmptyPrint}, has_fp : BOOLEAN, primary_mac : {MacGlobal},
     last_seen : {2}, times_seen : {1}, confidence : {[n |-> 1, d |-> 1]}]

GroupAssets ==
    [mac : {MacOther, MacGlobal, MacUpperDots}, fp : Fingerprints,
     last_seen : {1, 3}, times_seen : {4}, group : {0}, randomized : {"unset"}]

IdleGrouping == [pc |-> "idle", auto |-> TRUE, match |-> NoMatch, before |-> <<>>,
                 result |-> 0, calls |-> 1,
                 first |-> [group |-> 0, groups |-> 0]]

GrpInit ==
    /\ grp_groups \in UNION {[1..n -> GroupRows] : n \in 0..MaxGroups}
    /\ grp_asset \in GroupAssets
    /\ \E auto \in BOOLEAN :
         grp_call = [IdleGrouping EXCEPT !.pc = "start", !.auto = auto,
                                         !.before = grp_groups]

GrpIdle ==
    /\ grp_groups = <<>>
    /\ grp_asset = [mac |-> <<>>, fp |-> EmptyPrint, last_seen |-> 0,
                    times_seen |-> 0, group |-> 0, randomized |-> "unset"]
    /\ grp_call = IdleGrouping

notGrp == <<detVars, vndVars, geoVars, dbVars, posVars, mapVars, extVars>>

\* is_randomized_mac(asset.mac_address) and the early return.
GrpCheck ==
    /\ grp_call.pc = "start"
    /\ IF IsRandomizedMac(grp_asset.mac)
       THEN /\ grp_asset' = [grp_asset EXCEPT !.randomized = "true"]
            /\ grp_call' = [grp_call EXCEPT !.pc = "find"]
       ELSE /\ grp_asset' = [grp_asset EXCEPT !.randomized = "false"]
            /\ grp_call' = [grp_call EXCEPT !.pc = "done"]
    /\ UNCHANGED grp_groups
    /\ UNCHANGED notGrp

\* find_matching_device_group: the best group gets best_score as its
\* confidence_score.
GrpFind ==
    /\ grp_call.pc = "find"
    /\ LET best == BestMatch(grp_groups, grp_asset.fp, 1, NoMatch)
       IN  /\ grp_call' = [grp_call EXCEPT !.pc = "assign", !.match = best]
           /\ grp_groups' =
                IF best.idx = 0 THEN grp_groups
                ELSE [grp_groups EXCEPT ![best.idx].confidence = best.score]
    /\ UNCHANGED grp_asset
    /\ UNCHANGED notGrp

\* primary_mac after the asset joined group g, whose last_seen was already
\* set to utcnow().
PrimaryAfterJoin(g, asset) ==
    IF g.primary_mac = <<>> \/ asset.last_seen > g.last_seen
    THEN asset.mac
    ELSE g.primary_mac

\* The asset joins the group found.
JoinGroup(groups, i, asset) ==
    LET touched == [groups[i] EXCEPT !.last_seen = GroupNow,
                                     !.times_seen = @ + 1]
    IN  [groups EXCEPT ![i] =
            [touched EXCEPT !.primary_mac = PrimaryAfterJoin(touched, asset)]]

\* DeviceGroup(primary_mac=asset.mac_address, ...)
NewGroup(asset) ==
    [fp |-> asset.fp, has_fp |-> TRUE, primary_mac |-> asset.mac,
     last_seen |-> asset.last_seen, times_seen |-> asset.times_seen,
     confidence |-> [n |-> 1, d |-> 1]]

\* The rest of group_randomized_macs: join, create, or return None.
GrpAssign ==
    /\ grp_call.pc = "assign"
    /\ LET i == grp_call.match.idx
       IN  IF i # 0
           THEN /\ grp_groups' = JoinGroup(grp_groups, i, grp_asset)
                /\ grp_asset' = [grp_asset EXCEPT !.group = i]
                /\ grp_call' = [grp_call EXCEPT !.pc = "done", !.result = i]
           ELSE IF grp_call.auto
           THEN /\ grp_groups' = Append(grp_groups, NewGroup(grp_asset))
                /\ grp_asset' = [grp_asset EXCEPT !.group = Len(grp_groups) + 1]
                /\ grp_call' = [grp_call EXCEPT !.pc = "done",
                                                !.result = Len(grp_groups) + 1]
           ELSE /\ grp_call' = [grp_call EXCEPT !.pc = "done"]
                /\ UNCHANGED <<grp_groups, grp_asset>>
    /\ UNCHANGED notGrp

\* group_randomized_macs is called again for the asset, whose probe
\* history and hence fingerprint are as before.
GrpAgain ==
    /\ grp_call.pc = "done"
    /\ grp_call.calls < MaxGroupCalls
    /\ grp_call' = [grp_call EXCEPT
                      !.pc = "start", !.match = NoMatch, !.result = 0,
                      !.before = grp_groups, !.calls = @ + 1,
                      !.first = IF grp_call.calls = 1
                                THEN [group |-> grp_asset.group,
                                      groups |-> Len(grp_groups)]
                                ELSE @]
    /\ UNCHANGED <<grp_groups, grp_asset>>
    /\ UNCHANGED notGrp

GrpNext == GrpCheck \/ GrpFind \/ GrpAssign \/ GrpAgain

\* ---------------------------------------------------------------------
\* signal_to_distance (utils/positioning.py) for every calibration: the
\* reference power and the path-loss exponent are arguments.  Distances
\* are in centimetres, rounded down.

\* floor(100 * 10 ** (k / 60)) for k = 1..120: math.pow(10, exponent) for
\* an exponent of k sixtieths, which every (tx_power - signal_dbm) /
\* (10 * path_loss_exponent) with an exponent of 1.5, 3.0 or 6.0 is.
PowerOfTen ==
    <<103, 107, 112, 116, 121, 125, 130, 135, 141, 146, 152, 158, 164, 171,
      177, 184, 192, 199, 207, 215, 223, 232, 241, 251, 261, 271, 281, 292,
      304, 316, 328, 341, 354, 368, 383, 398, 413, 429, 446, 464, 482, 501,
      520, 541, 562, 584, 607, 630, 655, 681, 707, 735, 764, 794, 825, 857,
      891, 926, 962, 1000, 1039, 1079, 1122, 1165, 1211, 1258, 1308, 1359,
      1412, 1467, 1525, 1584, 1646, 1711, 1778, 1847, 1920, 1995, 2073,
      2154, 2238, 2326, 2417, 2511, 2610, 2712, 2818, 2928, 3043, 3162,
      3285, 3414, 3548, 3686, 3831, 3981, 4136, 4298, 4466, 4641, 4823,
      5011, 5207, 5411, 5623, 5843, 6072, 6309, 6556, 6812, 7079, 7356,
      7644, 7943, 8254, 8576, 8912, 9261, 9623, 10000>>

\* signal_tx_power: ge=-100, le=0, default -59.
TxPowers == {-100, -59, -30, 0}

\* signal_path_loss in tenths: ge=1.5, le=6.0, default 3.0.
PathLosses == {15, 30, 60}

\* Signals reported, in dBm, and how much stronger the second signal is.
SignalRange == -105..5
SignalSteps == {1, 7}

\* A guard that lets a signal equal to tx_power through to the formula.
SignalAbove(signal_dbm, tx_power) == signal_dbm > tx_power

\* `signal_dbm >= tx_power`
SignalAtOrAbove(signal_dbm, tx_power) == signal_dbm >= tx_power

\* math.pow(10, (tx_power - signal_dbm) / (10 * path_loss_exponent)) in
\* centimetres; anything past 10 ** 2 is reported as just above 100 m.
PathLossDistance(signal_dbm, tx_power, path_loss) ==
    LET sixtieths == ((tx_power - signal_dbm) * 60) \div path_loss
    IN  IF sixtieths <= 0 THEN 100
        ELSE IF sixtieths > Len(PowerOfTen) THEN 10001
        ELSE PowerOfTen[sixtieths]

\* signal_to_distance(signal_dbm, tx_power, path_loss_exponent)
SignalToDistanceWith(signal_dbm, tx_power, path_loss) ==
    IF SignalAtOrAbove(signal_dbm, tx_power) THEN 50
    ELSE Min2(Max2(PathLossDistance(signal_dbm, tx_power, path_loss), 50),
              10000)

SdInit ==
    /\ sd_in \in [signal : SignalRange, step : SignalSteps,
                  tx_power : TxPowers, path_loss : PathLosses]
    /\ sd_out = <<>>

SdIdle ==
    /\ sd_in = [signal |-> 0, step |-> 0, tx_power |-> 0, path_loss |-> 0]
    /\ sd_out = <<0>>

notSd == <<detVars, vndVars, geoVars, dbVars, posVars, mapVars, grpVars,
           ntfVars, raceVars, wsVars, repVars>>

\* Two calls with one calibration: the signal, and a stronger one.
SdCalc ==
    /\ sd_out = <<>>
    /\ sd_out' =
         <<SignalToDistanceWith(sd_in.signal, sd_in.tx_power, sd_in.path_loss),
           SignalToDistanceWith(sd_in.signal + sd_in.step, sd_in.tx_power,
                                sd_in.path_loss)>>
    /\ UNCHANGED sd_in
    /\ UNCHANGED notSd

SdNext == SdCalc

\* ---------------------------------------------------------------------
\* The notification manager (notifications/manager.py) and its queries
\* (database/crud.py), for one asset.  The clock counts check cycles'
\* worth of time; Optional[datetime] is a sequence of none or one tick.

\* The last tick of a behaviour.
MaxClock == 5

\* notification_cooldown_minutes, in ticks.
Cooldown == 3

\* since_minutes=1 of the new-device query, in ticks: shorter than any
\* cooldown the settings accept.
NewWindow == 1

\* The Asset row: `qualifies` stands for last_seen within the presence
\* timeout and last_signal_strength >= signal_threshold.
NotifyRows ==
    [notify_enabled : BOOLEAN, qualifies : BOOLEAN, first_seen : {0},
     last_notified : {<<>>}]

\* get_assets_to_notify's WHERE clause at tick t.
ToNotify(row, t) ==
    /\ row.notify_enabled
    /\ row.qualifies
    /\ \/ row.last_notified = <<>>
       \/ row.last_notified[1] <= t - Cooldown

\* get_newly_discovered_assets' WHERE clause at tick t.
NewlyDiscovered(row, t) == row.first_seen >= t - NewWindow

\* What a query hands the loop for a row it returns: the instance the
\* session already holds, with the attributes it was loaded with, else a
\* fresh one.
LoadedInstance(held, row) == IF held # <<>> THEN held[1] ELSE row

NtfInit ==
    /\ ntf_cfg \in [notify_new_devices : BOOLEAN]
    /\ ntf_db \in NotifyRows
    /\ ntf_clock = 0
    /\ ntf_pc = "check"
    /\ ntf_held = <<>>
    /\ ntf_sent = <<>>

NtfIdle ==
    /\ ntf_cfg = [notify_new_devices |-> FALSE]
    /\ ntf_db = [notify_enabled |-> FALSE, qualifies |-> FALSE,
                 first_seen |-> 0, last_notified |-> <<>>]
    /\ ntf_clock = 0
    /\ ntf_pc = "idle"
    /\ ntf_held = <<>>
    /\ ntf_sent = <<>>

notNtf == <<detVars, vndVars, geoVars, dbVars, posVars, mapVars, grpVars,
            sdVars, raceVars, wsVars, repVars>>

\* _check_and_notify opens its session and runs get_assets_to_notify: the
\* rows returned are held by the session from here on.
NtfQuery ==
    /\ ntf_pc = "check"
    /\ ntf_held' = IF ToNotify(ntf_db, ntf_clock) THEN <<ntf_db>> ELSE <<>>
    /\ ntf_pc' = "detected"
    /\ UNCHANGED <<ntf_cfg, ntf_db, ntf_clock, ntf_sent>>
    /\ UNCHANGED notNtf

\* notify_device: send_all, then update_asset_notification_time in a
\* session of its own when a notifier succeeded.
NotifyDevice(event, ok) ==
    /\ ntf_sent' = Append(ntf_sent, [at |-> ntf_clock, event |-> event,
                                     ok |-> ok])
    /\ ntf_db' = IF ok THEN [ntf_db EXCEPT !.last_notified = <<ntf_clock>>]
                 ELSE ntf_db

\* `for asset in assets: await self.notify_device(asset, "detected")`
NtfDetected ==
    /\ ntf_pc = "detected"
    /\ IF ntf_held # <<>>
       THEN \E ok \in BOOLEAN : NotifyDevice("detected", ok)
       ELSE UNCHANGED <<ntf_db, ntf_sent>>
    /\ ntf_pc' = "new"
    /\ UNCHANGED <<ntf_cfg, ntf_clock, ntf_held>>
    /\ UNCHANGED notNtf

\* The new-device pass of the same session: `if asset.last_notified is
\* None` reads the instance the session holds.  The session closes.
NtfNew ==
    /\ ntf_pc = "new"
    /\ IF /\ ntf_cfg.notify_new_devices
          /\ NewlyDiscovered(ntf_db, ntf_clock)
          /\ LoadedInstance(ntf_held, ntf_db).last_notified = <<>>
       THEN \E ok \in BOOLEAN : NotifyDevice("new_device", ok)
       ELSE UNCHANGED <<ntf_db, ntf_sent>>
    /\ ntf_pc' = "asleep"
    /\ ntf_held' = <<>>
    /\ UNCHANGED <<ntf_cfg, ntf_clock>>
    /\ UNCHANGED notNtf

\* asyncio.sleep(self._check_interval), then the next cycle.
NtfSleep ==
    /\ ntf_pc = "asleep"
    /\ ntf_clock < MaxClock
    /\ ntf_clock' = ntf_clock + 1
    /\ ntf_pc' = "check"
    /\ UNCHANGED <<ntf_cfg, ntf_db, ntf_held, ntf_sent>>
    /\ UNCHANGED notNtf

NtfNext == NtfQuery \/ NtfDetected \/ NtfNew \/ NtfSleep

\* ---------------------------------------------------------------------
\* ProbeCapture with a start() issued during a stop() (capture/monitor.py,
\* the routes of api/routes.py): the capture task the stop() found and the
\* one the start() creates, each with the tshark process it spawns.

\* Capture tasks and the process each one spawns.
RaceTasks == {"t1", "t2"}
ProcessOf(t) == IF t = "t1" THEN "p1" ELSE "p2"

\* ProbeCapture.is_running
RaceIsRunning ==
    /\ rc_obj.running
    /\ rc_obj.task # "none"
    /\ rc_tpc[rc_obj.task] \notin TaskEnded

\* A capture that is running: start() has returned, and its task is about
\* to spawn tshark or is reading from it.
RaceInit ==
    /\ \E begun \in BOOLEAN :
         /\ rc_obj = [running |-> TRUE, task |-> "t1",
                      process |-> IF begun THEN "p1" ELSE "none"]
         /\ rc_tpc = [t \in RaceTasks |->
                        IF t = "t2" THEN "none"
                        ELSE IF begun THEN "read" ELSE "pending"]
         /\ rc_proc = [p \in {"p1", "p2"} |->
                         IF p = "p1" /\ begun THEN "alive" ELSE "unborn"]
    /\ rc_cancel = [t \in RaceTasks |-> FALSE]
    /\ rc_call = [start |-> "idle", stop |-> "idle", waits |-> "none",
                  joins |-> "none"]

RaceIdle ==
    /\ rc_obj = [running |-> FALSE, task |-> "none", process |-> "none"]
    /\ rc_tpc = [t \in RaceTasks |-> "none"]
    /\ rc_proc = [p \in {"p1", "p2"} |-> "unborn"]
    /\ rc_cancel = [t \in RaceTasks |-> FALSE]
    /\ rc_call = [start |-> "off", stop |-> "off", waits |-> "none",
                  joins |-> "none"]

notRace == <<detVars, vndVars, geoVars, dbVars, posVars, mapVars, grpVars,
             sdVars, ntfVars, wsVars, repVars>>

\* `if self._task: self._task.cancel(); await self._task`
RaceCancelTask(obj) ==
    IF obj.task # "none"
    THEN /\ rc_cancel' = [rc_cancel EXCEPT
                            ![obj.task] = rc_tpc[obj.task] \notin TaskEnded]
         /\ rc_call' = [rc_call EXCEPT !.stop = "join", !.joins = obj.task,
                                       !.waits = "none"]
    ELSE /\ rc_call' = [rc_call EXCEPT !.stop = "returned", !.waits = "none"]
         /\ UNCHANGED rc_cancel

\* POST /capture/stop while is_running, and stop() up to its first await:
\* _running is cleared and the process terminated and waited for.
\* terminate() on a process that has exited and been closed raises
\* ProcessLookupError.
RaceStopCall ==
    /\ rc_call.stop = "idle"
    /\ RaceIsRunning
    /\ LET obj == [rc_obj EXCEPT !.running = FALSE]
       IN  /\ rc_obj' = obj
           /\ IF obj.process # "none"
              THEN \E closed \in BOOLEAN :
                     /\ closed => rc_proc[obj.process] = "exited"
                     /\ rc_call' = [rc_call EXCEPT
                                      !.stop = IF closed THEN "raised"
                                               ELSE "wait",
                                      !.waits = IF closed THEN "none"
                                                ELSE obj.process]
                     /\ UNCHANGED rc_cancel
              ELSE RaceCancelTask(obj)
    /\ UNCHANGED <<rc_tpc, rc_proc>>
    /\ UNCHANGED notRace

\* wait_for(self._process.wait(), 5.0) is over: the process waited for has
\* exited, or the timeout fired and kill() goes to the process _process
\* refers to now (ProcessLookupError if that one has exited and been
\* closed).  Then _process is cleared and _task cancelled.
RaceStopWaited ==
    /\ rc_call.stop = "wait"
    /\ \E closed \in BOOLEAN :
         /\ closed => /\ rc_proc[rc_call.waits] = "alive"
                      /\ rc_proc[rc_obj.process] = "exited"
         /\ IF closed
            THEN /\ rc_call' = [rc_call EXCEPT !.stop = "raised",
                                               !.waits = "none"]
                 /\ UNCHANGED <<rc_proc, rc_obj, rc_cancel>>
            ELSE /\ rc_proc' =
                      IF rc_proc[rc_call.waits] = "alive"
                      THEN [rc_proc EXCEPT ![rc_obj.process] = "exited"]
                      ELSE rc_proc
                 /\ rc_obj' = [rc_obj EXCEPT !.process = "none"]
                 /\ RaceCancelTask(rc_obj)
    /\ UNCHANGED rc_tpc
    /\ UNCHANGED notRace

\* `await self._task` is over: CancelledError is swallowed and _task
\* cleared; the exception of a failed task leaves stop() before that.
RaceStopJoined ==
    /\ rc_call.stop = "join"
    /\ rc_tpc[rc_call.joins] \in TaskEnded
    /\ IF rc_tpc[rc_call.joins] = "failed"
       THEN /\ rc_call' = [rc_call EXCEPT !.stop = "raised"]
            /\ UNCHANGED rc_obj
       ELSE /\ rc_call' = [rc_call EXCEPT !.stop = "returned"]
            /\ rc_obj' = [rc_obj EXCEPT !.task = "none"]
    /\ UNCHANGED <<rc_tpc, rc_proc, rc_cancel>>
    /\ UNCHANGED notRace

\* POST /capture/start while not is_running, and start() up to the await
\* of set_monitor_mode; with _running set it returns at once.
RaceStartCall ==
    /\ rc_call.start = "idle"
    /\ ~RaceIsRunning
    /\ rc_call' = [rc_call EXCEPT
                     !.start = IF rc_obj.running THEN "returned"
                               ELSE "monitor_mode"]
    /\ UNCHANGED <<rc_obj, rc_tpc, rc_proc, rc_cancel>>
    /\ UNCHANGED notRace

\* `self._running = True; self._task = create_task(...)`: the reference to
\* an earlier task is overwritten.
RaceStartFinish ==
    /\ rc_call.start = "monitor_mode"
    /\ rc_obj' = [rc_obj EXCEPT !.running = TRUE, !.task = "t2"]
    /\ rc_tpc' = [rc_tpc EXCEPT !["t2"] = "pending"]
    /\ rc_call' = [rc_call EXCEPT !.start = "returned"]
    /\ UNCHANGED <<rc_proc, rc_cancel>>
    /\ UNCHANGED notRace

\* First run of a capture task, up to `await create_subprocess_exec`.
RaceTaskBegin(t) ==
    /\ rc_tpc[t] = "pending" /\ ~rc_cancel[t]
    /\ rc_tpc' = [rc_tpc EXCEPT ![t] = "spawn"]
    /\ UNCHANGED <<rc_obj, rc_proc, rc_cancel, rc_call>>
    /\ UNCHANGED notRace

\* tshark is running: `self._process = ...`, then the loop test.
RaceTaskSpawned(t) ==
    /\ rc_tpc[t] = "spawn" /\ ~rc_cancel[t]
    /\ rc_obj' = [rc_obj EXCEPT !.process = ProcessOf(t)]
    /\ rc_proc' = [rc_proc EXCEPT ![ProcessOf(t)] = "alive"]
    /\ rc_tpc' = [rc_tpc EXCEPT ![t] = LoopCheck(rc_obj.running, ProcessOf(t))]
    /\ UNCHANGED <<rc_cancel, rc_call>>
    /\ UNCHANGED notRace

\* One pass of the while body: readline() of the process _process refers
\* to gives a line or times out, or gives b"" once that process has
\* exited; with _process cleared the attribute access raises inside the
\* try (sleep, then the loop test raises outside it).
RaceTaskRead(t) ==
    /\ rc_tpc[t] = "read" /\ ~rc_cancel[t]
    /\ \E eof \in BOOLEAN :
         /\ eof => (rc_obj.process # "none" /\ rc_proc[rc_obj.process] = "exited")
         /\ rc_tpc' = [rc_tpc EXCEPT ![t] =
                         IF rc_obj.process = "none" THEN "errsleep"
                         ELSE IF eof THEN "done"
                         ELSE LoopCheck(rc_obj.running, rc_obj.process)]
    /\ UNCHANGED <<rc_obj, rc_proc, rc_cancel, rc_call>>
    /\ UNCHANGED notRace

\* `await asyncio.sleep(1)` of the except branch, then the loop test.
RaceTaskErrSleep(t) ==
    /\ rc_tpc[t] = "errsleep" /\ ~rc_cancel[t]
    /\ rc_tpc' = [rc_tpc EXCEPT ![t] = LoopCheck(rc_obj.running, rc_obj.process)]
    /\ UNCHANGED <<rc_obj, rc_proc, rc_cancel, rc_call>>
    /\ UNCHANGED notRace

\* CancelledError at the await the task is suspended on.  Nothing
\* terminates the process the task had spawned.
RaceTaskCancelled(t) ==
    /\ rc_cancel[t] /\ rc_tpc[t] \notin (TaskEnded \cup {"none"})
    /\ rc_tpc' = [rc_tpc EXCEPT ![t] = "cancelled"]
    /\ rc_cancel' = [rc_cancel EXCEPT ![t] = FALSE]
    /\ UNCHANGED <<rc_obj, rc_proc, rc_call>>
    /\ UNCHANGED notRace

\* tshark exits, on its own or on the SIGTERM of terminate().
RaceProcExit(p) ==
    /\ rc_proc[p] = "alive"
    /\ rc_proc' = [rc_proc EXCEPT ![p] = "exited"]
    /\ UNCHANGED <<rc_obj, rc_tpc, rc_cancel, rc_call>>
    /\ UNCHANGED notRace

RaceNext ==
    \/ RaceStopCall \/ RaceStopWaited \/ RaceStopJoined
    \/ RaceStartCall \/ RaceStartFinish
    \/ \E t \in RaceTasks :
         \/ RaceTaskBegin(t) \/ RaceTaskSpawned(t) \/ RaceTaskRead(t)
         \/ RaceTaskErrSleep(t) \/ RaceTaskCancelled(t)
    \/ \E p \in {"p1", "p2"} : RaceProcExit(p)

\* ---------------------------------------------------------------------
\* The WebSocket ConnectionManager (api/websocket.py): clients connecting
\* and disconnecting, the broadcast loop, and the stop_broadcast tasks a
\* disconnect schedules.

\* Broadcast loop tasks created in one behaviour.
MaxLoops == 2

\* stop_broadcast tasks created in one behaviour.
MaxStops == 2

WsClients == {"c1", "c2"}

WsInit ==
    /\ ws_conns = {}
    /\ ws_running = FALSE
    /\ ws_task = 0
    /\ ws_loop = [i \in 1..MaxLoops |-> "none"]
    /\ ws_cancel = [i \in 1..MaxLoops |-> FALSE]
    /\ ws_client = [c \in WsClients |-> "out"]
    /\ ws_stop = [s \in 1..MaxStops |-> [pc |-> "none", joins |-> 0]]

WsIdle ==
    /\ ws_conns = {}
    /\ ws_running = FALSE
    /\ ws_task = 0
    /\ ws_loop = <<>>
    /\ ws_cancel = <<>>
    /\ ws_client = <<>>
    /\ ws_stop = <<>>

notWs == <<detVars, vndVars, geoVars, dbVars, posVars, mapVars, grpVars,
           sdVars, ntfVars, raceVars, repVars>>

\* The task create_task hands out next, 0 when the bound is used up.
FreshLoop ==
    IF \E i \in 1..MaxLoops : ws_loop[i] = "none"
    THEN CHOOSE i \in 1..MaxLoops :
           ws_loop[i] = "none" /\ \A j \in 1..(i - 1) : ws_loop[j] # "none"
    ELSE 0

FreshStop ==
    IF \E s \in 1..MaxStops : ws_stop[s].pc = "none"
    THEN CHOOSE s \in 1..MaxStops :
           ws_stop[s].pc = "none" /\ \A j \in 1..(s - 1) : ws_stop[j].pc # "none"
    ELSE 0

\* websocket_endpoint is entered: connect() up to `await accept()`.
WsConnectBegin(c) ==
    /\ ws_client[c] = "out"
    /\ ws_client' = [ws_client EXCEPT ![c] = "accepting"]
    /\ UNCHANGED <<ws_conns, ws_running, ws_task, ws_loop, ws_cancel, ws_stop>>
    /\ UNCHANGED notWs

\* The rest of connect(): the client is added, and start_broadcast runs
\* when _running is false.
WsConnected(c) ==
    /\ ws_client[c] = "accepting"
    /\ ws_running \/ FreshLoop # 0
    /\ ws_client' = [ws_client EXCEPT ![c] = "in"]
    /\ ws_conns' = ws_conns \cup {c}
    /\ IF ws_running
       THEN UNCHANGED <<ws_running, ws_task, ws_loop>>
       ELSE /\ ws_running' = TRUE
            /\ ws_task' = FreshLoop
            /\ ws_loop' = [ws_loop EXCEPT ![FreshLoop] = "sleep"]
    /\ UNCHANGED <<ws_cancel, ws_stop>>
    /\ UNCHANGED notWs

\* receive_text() raises in the endpoint: disconnect() discards the client
\* and, with no client left and _running set, creates a stop_broadcast
\* task.
WsDisconnect(c) ==
    /\ ws_client[c] = "in"
    /\ LET left == ws_conns \ {c}
           stops == left = {} /\ ws_running
       IN  /\ stops => FreshStop # 0
           /\ ws_conns' = left
           /\ ws_stop' = IF stops
                         THEN [ws_stop EXCEPT ![FreshStop].pc = "pending"]
                         ELSE ws_stop
    /\ ws_client' = [ws_client EXCEPT ![c] = "out"]
    /\ UNCHANGED <<ws_running, ws_task, ws_loop, ws_cancel>>
    /\ UNCHANGED notWs

\* A stop_broadcast task gets to run: _running is cleared and the task
\* _broadcast_task refers to is cancelled and awaited.
WsStopRun(s) ==
    /\ ws_stop[s].pc = "pending"
    /\ ws_running' = FALSE
    /\ IF ws_task # 0
       THEN /\ ws_cancel' = [ws_cancel EXCEPT
                               ![ws_task] = ws_loop[ws_task] # "ended"]
            /\ ws_stop' = [ws_stop EXCEPT ![s] = [pc |-> "join",
                                                  joins |-> ws_task]]
       ELSE /\ ws_stop' = [ws_stop EXCEPT ![s].pc = "done"]
            /\ UNCHANGED ws_cancel
    /\ UNCHANGED <<ws_conns, ws_task, ws_loop, ws_client>>
    /\ UNCHANGED notWs

\* `await self._broadcast_task` is over.
WsStopJoined(s) ==
    /\ ws_stop[s].pc = "join"
    /\ ws_loop[ws_stop[s].joins] = "ended"
    /\ ws_stop' = [ws_stop EXCEPT ![s].pc = "done"]
    /\ UNCHANGED <<ws_conns, ws_running, ws_task, ws_loop, ws_cancel, ws_client>>
    /\ UNCHANGED notWs

\* One turn of _broadcast_loop: `while self._running`, then broadcast();
\* the clients whose send raised are taken out of active_connections,
\* without a call of disconnect().
WsBroadcast(i) ==
    /\ ws_loop[i] = "sleep" /\ ~ws_cancel[i]
    /\ IF ~ws_running
       THEN /\ ws_loop' = [ws_loop EXCEPT ![i] = "ended"]
            /\ UNCHANGED ws_conns
       ELSE /\ \E disconnected \in SUBSET ws_conns :
                 ws_conns' = ws_conns \ disconnected
            /\ UNCHANGED ws_loop
    /\ UNCHANGED <<ws_running, ws_task, ws_cancel, ws_client, ws_stop>>
    /\ UNCHANGED notWs

\* CancelledError reaches the loop at its await.
WsLoopCancelled(i) ==
    /\ ws_cancel[i] /\ ws_loop[i] = "sleep"
    /\ ws_loop' = [ws_loop EXCEPT ![i] = "ended"]
    /\ ws_cancel' = [ws_cancel EXCEPT ![i] = FALSE]
    /\ UNCHANGED <<ws_conns, ws_running, ws_task, ws_client, ws_stop>>
    /\ UNCHANGED notWs

WsNext ==
    \/ \E c \in WsClients :
         WsConnectBegin(c) \/ WsConnected(c) \/ WsDisconnect(c)
    \/ \E s \in 1..MaxStops : WsStopRun(s) \/ WsStopJoined(s)
    \/ \E i \in 1..MaxLoops : WsBroadcast(i) \/ WsLoopCancelled(i)

\* ---------------------------------------------------------------------
\* The secondary station's reporter (scripts/secondary_reporter.py): probe
\* logs are recorded while the reporting loop queries, posts and sleeps.
\* Time is in ticks of one report_interval.

\* Probe logs recorded in one behaviour.
MaxLogs == 3

\* The last tick of a behaviour.
MaxRepClock == 4

\* batch_size (100 by default), scaled to the two MACs of the model.
BatchSize == 1

\* report_interval, and the 30 s timeout of the POST, in ticks.
ReportInterval == 1
PostTimeout == 1

\* `if self.consecutive_errors >= 5`
ErrorLimit == 5

RepMacs == {"m1", "m2"}

RepInit ==
    /\ rep_logs = <<>>
    /\ rep_clock = 0
    /\ rep_last = <<>>
    /\ rep_run = [pc |-> "query", payload |-> {}, since |-> 0, wake |-> 0,
                  errors |-> 0]

RepIdle ==
    /\ rep_logs = <<>>
    /\ rep_clock = 0
    /\ rep_last = <<>>
    /\ rep_run = [pc |-> "idle", payload |-> {}, since |-> 0, wake |-> 0,
                  errors |-> 0]

notRep == <<detVars, vndVars, geoVars, dbVars, posVars, mapVars, grpVars,
            sdVars, ntfVars, raceVars, wsVars>>

\* cutoff_time: utcnow() - 2 * report_interval, or last_report_time when
\* that is later.
CutoffTime ==
    IF rep_last = <<>> THEN rep_clock - 2 * ReportInterval
    ELSE Max2(rep_clock - 2 * ReportInterval, rep_last[1])

\* The rows of the query that carry a signal, in row order.
QueriedLogs ==
    {i \in 1..Len(rep_logs) :
        rep_logs[i].timestamp >= CutoffTime /\ rep_logs[i].has_signal}

\* The keys of readings_map[: batch_size]: a dict keeps the order in which
\* its keys were first inserted, so the MACs whose first row is among the
\* first batch_size first rows.
BatchedMacs(rows) ==
    LET first(mac) == CHOOSE i \in rows :
                        /\ rep_logs[i].mac = mac
                        /\ \A j \in rows : rep_logs[j].mac = mac => i <= j
        macs == {rep_logs[i].mac : i \in rows}
    IN  {mac \in macs :
           Cardinality({other \in macs : first(other) < first(mac)}) < BatchSize}

\* The capture of the station stores a ProbeLog, timestamp now.
RepRecord(mac, has_signal) ==
    /\ rep_run.pc # "idle"
    /\ Len(rep_logs) < MaxLogs
    /\ rep_logs' = Append(rep_logs, [mac |-> mac, timestamp |-> rep_clock,
                                     has_signal |-> has_signal,
                                     reported |-> FALSE])
    /\ UNCHANGED <<rep_clock, rep_last, rep_run>>
    /\ UNCHANGED notRep

\* _report_readings up to the POST: without a reading to send the cycle
\* ends with last_report_time = utcnow().
RepQuery ==
    /\ rep_run.pc = "query"
    /\ LET rows == QueriedLogs
           macs == BatchedMacs(rows)
       IN  IF rows = {}
           THEN /\ rep_last' = <<rep_clock>>
                /\ rep_run' = [rep_run EXCEPT !.pc = "sleep", !.errors = 0,
                                 !.wake = rep_clock + ReportInterval]
           ELSE /\ rep_run' = [rep_run EXCEPT
                                 !.pc = "post",
                                 !.payload = {i \in rows : rep_logs[i].mac \in macs},
                                 !.since = rep_clock]
                /\ UNCHANGED rep_last
    /\ UNCHANGED <<rep_logs, rep_clock>>
    /\ UNCHANGED notRep

\* The POST is over.  Accepted: last_report_time = utcnow().  Refused or
\* failed: the exception reaches start(), which counts it and sleeps, twice
\* as long from the fifth error in a row.
RepPosted ==
    /\ rep_run.pc = "post"
    /\ \E ok \in BOOLEAN :
         IF ok
         THEN /\ rep_logs' = [i \in 1..Len(rep_logs) |->
                                IF i \in rep_run.payload
                                THEN [rep_logs[i] EXCEPT !.reported = TRUE]
                                ELSE rep_logs[i]]
              /\ rep_last' = <<rep_clock>>
              /\ rep_run' = [rep_run EXCEPT !.pc = "sleep", !.payload = {},
                               !.errors = 0,
                               !.wake = rep_clock + ReportInterval]
         ELSE /\ rep_run' = [rep_run EXCEPT
                               !.pc = "sleep", !.payload = {},
                               !.errors = @ + 1,
                               !.wake = IF rep_run.errors + 1 >= ErrorLimit
                                        THEN rep_clock + 2 * ReportInterval
                                        ELSE rep_clock + ReportInterval]
              /\ UNCHANGED <<rep_logs, rep_last>>
    /\ UNCHANGED rep_clock
    /\ UNCHANGED notRep

\* asyncio.sleep is over.
RepWake ==
    /\ rep_run.pc = "sleep"
    /\ rep_clock >= rep_run.wake
    /\ rep_run' = [rep_run EXCEPT !.pc = "query"]
    /\ UNCHANGED <<rep_logs, rep_clock, rep_last>>
    /\ UNCHANGED notRep

\* Time passes while the reporter sleeps or waits for the primary, never
\* beyond the end of the sleep or the timeout of the POST.
RepTick ==
    /\ rep_clock < MaxRepClock
    /\ \/ rep_run.pc = "sleep" /\ rep_clock < rep_run.wake
       \/ rep_run.pc = "post" /\ rep_clock < rep_run.since + PostTimeout
    /\ rep_clock' = rep_clock + 1
    /\ UNCHANGED <<rep_logs, rep_last, rep_run>>
    /\ UNCHANGED notRep

RepNext ==
    \/ \E mac \in RepMacs, has_signal \in BOOLEAN : RepRecord(mac, has_signal)
    \/ RepQuery \/ RepPosted \/ RepWake \/ RepTick

ExtIdle == SdIdle /\ NtfIdle /\ RaceIdle /\ WsIdle /\ RepIdle

AppIdle == DbIdle /\ PosIdle /\ MapIdle /\ GrpIdle /\ ExtIdle

\* The steps of the coroutine that starts and stops the detectors: lifespan(),
\* or the handler of one capture request.
ControlStep ==
    \/ LsSafety \/ LsWifi \/ LsWifiDone \/ LsArp \/ LsDhcp \/ LsManager
    \/ LsStopWifi \/ LsStopArp \/ LsStopDhcp
    \/ CaptureStartBegin \/ CaptureStartFinish
    \/ CaptureStopBegin \/ CaptureStopWaited \/ CaptureStopJoined
    \/ ApiStartReturn \/ ApiStopReturn
    \/ ArpStopBegin \/ ArpStopJoined \/ DhcpStopBegin \/ DhcpStopJoined

\* The steps of the capture task: each ends an await that the event loop or a
\* timer (the 1.0 s read timeout, sleep(1)) brings to an end.
CaptureTaskStep ==
    \/ TaskBegin \/ TaskSpawned \/ TaskRead \/ TaskStore \/ TaskErrSleep
    \/ TaskCancelled

\* The steps of the ARP task that wait for no external command.
ArpTaskStep == ArpLoopTest \/ ArpStore \/ ArpSleepDone \/ ArpCancelled

\* The steps of the ARP task that need `ip route`, `ping` or `arp -n` to exit.
ArpCommandExit == ArpRouteDone \/ ArpPingDone \/ ArpTableDone

DhcpTaskStep == DhcpLoopTest \/ DhcpStore \/ DhcpSleepDone \/ DhcpCancelled

\* What the outside does: a capture request arrives, the server shuts the
\* application down, tshark exits.
Outside == ApiStartCapture \/ ApiStopCapture \/ LsShutdown \/ ProcExit

Next ==
    \/ ControlStep
    \/ CaptureTaskStep
    \/ ArpTaskStep
    \/ ArpCommandExit
    \/ DhcpTaskStep
    \/ Outside

StartupNext ==
    \/ LsSafety
    \/ LsWifi
    \/ CaptureStartBegin
    \/ CaptureStartFinish
    \/ LsWifiDone
    \/ LsArp
    \/ LsDhcp
    \/ LsManager

vars == <<detVars, restVars>>

StartupInit == DetInit(AllEnvs) /\ VndIdle /\ GeoIdle /\ AppIdle

\* Startup alone, on every host: lifespan() is one coroutine, so each of its
\* steps is taken once it is enabled.
StartupSpec == StartupInit /\ [][StartupNext]_vars /\ WF_vars(StartupNext)

\* The detectors on a host where everything is installed.  The event loop
\* runs every coroutine that can run and every timer fires; nothing makes an
\* external command exit, a request arrive or the server shut down.
Init == DetInit({GoodEnv}) /\ VndIdle /\ GeoIdle /\ AppIdle

Spec ==
    /\ Init /\ [][Next]_vars
    /\ WF_vars(ControlStep)
    /\ WF_vars(CaptureTaskStep)
    /\ WF_vars(ArpTaskStep)
    /\ WF_vars(DhcpTaskStep)

VendorInit == DetInit({GoodEnv}) /\ VndInit /\ GeoIdle /\ AppIdle

VendorSpec == VendorInit /\ [][VendorNext]_vars

\* One auto_detect_location() call for every configuration and every
\* sentence stream.
GeoSpecInit == DetInit({GoodEnv}) /\ VndIdle /\ GeoInit /\ AppIdle

GeoSpec == GeoSpecInit /\ [][GeoNext]_vars

\* The database under overlapping reports and detections.
DbSpecInit == DetInit({GoodEnv}) /\ VndIdle /\ GeoIdle /\ DbInit /\ PosIdle /\ MapIdle /\ GrpIdle
    /\ ExtIdle

DbSpec == DbSpecInit /\ [][DbNext]_vars

PosSpecInit == DetInit({GoodEnv}) /\ VndIdle /\ GeoIdle /\ DbIdle /\ PosInit /\ MapIdle /\ GrpIdle
    /\ ExtIdle

PosSpec == PosSpecInit /\ [][PosNext]_vars

\* One asset of one get_map_data call, for every set of readings.
MapSpecInit ==
    DetInit({GoodEnv}) /\ VndIdle /\ GeoIdle /\ DbIdle /\ PosIdle /\ MapInit /\ GrpIdle
    /\ ExtIdle

MapSpec == MapSpecInit /\ [][MapNext]_vars

\* One group_randomized_macs call, for every asset and set of groups.
GroupSpecInit ==
    /\ DetInit({GoodEnv}) /\ VndIdle /\ GeoIdle
    /\ DbIdle /\ PosIdle /\ MapIdle /\ GrpInit /\ ExtIdle

GroupSpec == GroupSpecInit /\ [][GrpNext]_vars

\* Idle state of everything but the later sections.
CoreIdle ==
    /\ DetInit({GoodEnv}) /\ VndIdle /\ GeoIdle
    /\ DbIdle /\ PosIdle /\ MapIdle /\ GrpIdle

\* signal_to_distance over signals and calibrations.
SdSpecInit == CoreIdle /\ SdInit /\ NtfIdle /\ RaceIdle /\ WsIdle /\ RepIdle

SdSpec == SdSpecInit /\ [][SdNext]_vars

\* The notification loop over check cycles.
NotifySpecInit ==
    CoreIdle /\ SdIdle /\ NtfInit /\ RaceIdle /\ WsIdle /\ RepIdle

NotifySpec == NotifySpecInit /\ [][NtfNext]_vars

\* One stop request and one start request on a running capture.
RaceSpecInit ==
    CoreIdle /\ SdIdle /\ NtfIdle /\ RaceInit /\ WsIdle /\ RepIdle

RaceSpec == RaceSpecInit /\ [][RaceNext]_vars

\* WebSocket clients coming and going.
WsSpecInit ==
    CoreIdle /\ SdIdle /\ NtfIdle /\ RaceIdle /\ WsInit /\ RepIdle

WsSpec == WsSpecInit /\ [][WsNext]_vars

\* The reporter of a secondary station while probes are logged.
ReportSpecInit ==
    CoreIdle /\ SdIdle /\ NtfIdle /\ RaceIdle /\ WsIdle /\ RepInit

ReportSpec == ReportSpecInit /\ [][RepNext]_vars

\* ---------------------------------------------------------------------
\* The vendor resolver's claims, under VendorSpec.

\* C5: on a cache miss lookup() consults its sources in the order IEEE OUI
\* table, api.macvendors.com, maclookup.app, macaddress.io; the source that
\* yields a vendor is the last one consulted and its result is the one
\* returned, and a vendor result always comes from such a yield.
C5_SourceOrder ==
    \A c \in Callers :
        LET inv   == lk[c].invoked
            order == <<"ieee_oui", "macvendors.com", "maclookup.app",
                       "macaddress.io">>
        IN  /\ Len(inv) <= Len(order)
            /\ \A i \in 1..Len(inv) :
                 /\ inv[i].source = order[i]
                 /\ inv[i].yielded =>
                      /\ i = Len(inv)
                      /\ lk[c].pc = "done"
                      /\ lk[c].result = [vendor |-> "Acme", source |-> order[i]]
            /\ (lk[c].pc = "done" /\ ~lk[c].hit /\ lk[c].result.vendor # "") =>
                 inv[Len(inv)].yielded

\* A miss on which the first two sources gave nothing and the third yielded.
C5_Witness ==
    \E c \in Callers :
        /\ lk[c].pc = "done"
        /\ ~lk[c].hit
        /\ Len(lk[c].invoked) = 3
        /\ lk[c].invoked[3].yielded
        /\ lk[c].result.source = "maclookup.app"

\* C6: once a lookup of an address has completed, a later lookup of any
\* spelling of it within the cache duration returns that same VendorInfo and
\* invokes no source.
C6_CachedResultReturned ==
    \A c \in Callers :
        (lk[c].pc # "idle" /\ lk[c].prior # {}) =>
            /\ lk[c].pc = "done"
            /\ lk[c].invoked = <<>>
            /\ \A r \in lk[c].prior : lk[c].result = r

\* C7: lookup() never raises because a source failed, and a run of the chain
\* returns the empty result exactly when every source of the chain was
\* consulted and none yielded a vendor.
C7_NoPropagation ==
    \A c \in Callers :
        /\ lk[c].pc # "raised"
        /\ (lk[c].pc = "done" /\ ~lk[c].hit) =>
             (lk[c].result = [vendor |-> "", source |-> "none"]
                <=> /\ Len(lk[c].invoked) = 4
                    /\ \A i \in 1..4 : ~lk[c].invoked[i].yielded)

\* With both API keys set, all four sources were awaited, none yielded, and
\* the call returned the empty result.
C7_Witness ==
    \E c \in Callers :
        /\ vnd_keys = {"maclookup.app", "macaddress.io"}
        /\ lk[c].pc = "done"
        /\ ~lk[c].hit
        /\ Len(lk[c].invoked) = 4
        /\ lk[c].result.source = "none"

\* C8: two lookups of one address that overlapped on a cold cache both return
\* the same result, and the cache entry of the address holds that result.
C8_IdempotentDoubleFetch ==
    \A c, d \in Callers :
        ( /\ c # d
          /\ lk[c].pc = "done" /\ lk[d].pc = "done"
          /\ lk[c].key = lk[d].key
          /\ lk[c].raced /\ lk[d].raced
          /\ ~lk[c].hit /\ ~lk[d].hit )
        => /\ lk[c].result = lk[d].result
           /\ vnd_cache[lk[c].key].info = lk[c].result

\* ---------------------------------------------------------------------
\* The detectors' claims.

C2_LoopsSurviveErrors ==
    /\ (arp_err ~> (arp_pc = "route_wait" \/ ~arp_running))
    /\ (dhcp_err ~> ((~dhcp_err /\ dhcp_pc \in {"store", "sleep"}) \/ ~dhcp_running))
    /\ (task_err ~> (task_pc = "read" \/ ~cap_running))

\* The ARP and the DHCP loop both sleep after a failed write, and the capture
\* loop sleeps after a failed read, all three detectors still running.
C2_Witness ==
    /\ arp_err /\ arp_pc = "sleep" /\ ArpIsRunning
    /\ dhcp_err /\ dhcp_pc = "sleep" /\ DhcpIsRunning
    /\ task_err /\ task_pc = "errsleep" /\ CaptureIsRunning

\* C3 (Spec): stop() comes to an end; the process is killed only at the end of
\* the wait that follows terminate(), and only if it has not exited; once
\* _running is cleared the capture loop starts no further read; and when
\* stop() has returned the task has finished, _process is None and
\* is_running is false.
C3_StopTerminates ==
    /\ (stop_pc = "called" ~> stop_pc \in {"returned", "raised"})
    /\ [][(proc_killed' /\ ~proc_killed) =>
            (stop_pc = "wait" /\ proc_term /\ WaitedAlive)]_vars
    /\ [][(~cap_running /\ task_pc # "read") => task_pc' # "read"]_vars
    /\ [](stop_pc = "returned" =>
            /\ task_pc \in TaskEnded
            /\ cap_process = "none"
            /\ ~CaptureIsRunning)

\* stop() has returned after the grace period ran out and the process was
\* killed.
C3_Witness ==
    /\ stop_pc = "returned"
    /\ proc_term /\ proc_killed
    /\ task_pc = "cancelled"

\* C4 (Spec): a poll cycle waiting for `ip route`, `ping` or `arp -n` gets on
\* to its writes or its sleep, or the monitor is stopped, even when the
\* command never exits.
C4_BoundedExternalWaits ==
    (arp_pc \in {"route_wait", "ping_wait", "arp_wait"})
        ~> (arp_pc \in {"store", "sleep"} \/ ~arp_running)

\* ---------------------------------------------------------------------
\* The location resolver's claims, under GeoSpec.

\* C9: auto_detect_location runs its stages in the order GPS, WiFi, IP; no
\* stage runs after one that returned a location; the GPS stage runs exactly
\* when GPS is enabled and a device is found or configured, the WiFi stage
\* exactly when an API key is given and the GPS gave nothing, the IP stage
\* exactly when nothing came before it; the call returns the last stage's
\* outcome, so None exactly when every stage that ran returned None.
C9_StageOrder ==
    LET tr     == geo.trace
        rank   == [gps |-> 1, wifi |-> 2, ip |-> 3]
        ran(x) == \E k \in 1..Len(tr) : tr[k].stage = x
        got(x) == \E k \in 1..Len(tr) : tr[k].stage = x /\ tr[k].loc # NoLoc
    IN  /\ \A j, k \in 1..Len(tr) : j < k => rank[tr[j].stage] < rank[tr[k].stage]
        /\ \A k \in 1..Len(tr) : tr[k].loc # NoLoc => (k = Len(tr) /\ geo.pc = "done")
        /\ geo.pc = "done" =>
             /\ Len(tr) >= 1
             /\ geo.result = tr[Len(tr)].loc
             /\ ran("gps") <=> ( /\ geo_cfg.gps_enabled
                                 /\ (geo_cfg.devices \/ geo_cfg.gps_device # "none") )
             /\ ran("wifi") <=> (geo_cfg.api_key /\ ~got("gps"))
             /\ ran("ip") <=> (~got("gps") /\ ~got("wifi"))
             /\ (geo.result = NoLoc) <=> (\A k \in 1..Len(tr) : tr[k].loc = NoLoc)

\* All three stages ran, the GPS and the WiFi stage gave nothing, and the IP
\* location was returned.
C9_Witness ==
    /\ geo.pc = "done"
    /\ Len(geo.trace) = 3
    /\ geo.trace[1].loc = NoLoc /\ geo.trace[2].loc = NoLoc
    /\ geo.result.from = "ip"

\* C10: a GPS read during which a GGA sentence with a fix and an RMC sentence
\* with a fix both arrive before the timeout returns the GGA location, in
\* whichever order they arrive; an RMC location is returned only when no GGA
\* sentence with a fix arrives before the timeout.
C10_GgaPreferred ==
    \A k \in 1..Len(geo.trace) :
        geo.trace[k].stage = "gps" =>
            LET loc     == geo.trace[k].loc
                last    == IF Len(gps_stream) < MaxReads THEN Len(gps_stream)
                           ELSE MaxReads
                fix(t)  == \E n \in 1..last :
                              gps_stream[n].type = t /\ gps_stream[n].fix
            IN  /\ (fix("GGA") /\ fix("RMC") /\ loc # NoLoc) => loc.from = "GGA"
                /\ loc.from = "RMC" => ~fix("GGA")

\* ---------------------------------------------------------------------
\* The signal-report and asset-store claims, under DbSpec.

\* C11: a finished report whose key belongs to a registered monitor was
\* answered with success, its accepted-count is the number of entries of
\* the batch, and every entry has exactly one stored SignalReading, attached
\* to the asset with the entry's MAC and to the monitor owning the key; no
\* MAC has two assets.
C11_OneReadingPerEntry ==
    /\ \A h \in Handlers :
         (hd[h].pc = "done" /\ hd[h].kind = "report"
            /\ hd[h].key \in RegisteredKeys) =>
           LET s == hd[h]
               rows(i) == {r \in sig_readings : r.req = s.id /\ r.idx = i}
           IN  /\ call_log[s.id].status = "200"
               /\ call_log[s.id].count = Len(s.batch)
               /\ \A i \in 1..Len(s.batch) :
                    /\ Cardinality(rows(i)) = 1
                    /\ \A r \in rows(i) :
                         /\ r.mac = Upper(s.batch[i].mac)
                         /\ r.monitor = s.key
                         /\ \E a \in assets : a.mac = r.mac
    /\ \A a, b \in assets : a.mac = b.mac => a = b

\* C12: a report whose key matches no registered monitor is answered 401
\* and changes nothing: no asset was created by it, no SignalReading was
\* stored for it, no monitor's last_seen was set by it, and its session
\* holds nothing to commit.
C12_UnknownKeyRejected ==
    \A h \in Handlers :
      (hd[h].kind = "report" /\ call_log[hd[h].id].key \notin RegisteredKeys) =>
        LET id == hd[h].id
        IN  /\ hd[h].pc = "done"
            /\ call_log[id].status = "401"
            /\ call_log[id].count = 0
            /\ hd[h].flushed = {} /\ hd[h].pending = {}
            /\ db_lock # h
            /\ \A a \in assets : a.by # id
            /\ \A r \in sig_readings : r.req # id
            /\ \A k \in RegisteredKeys : mon_seen[k] # id

\* A report with an unknown key and an entry the loop would have stored was
\* rejected while the other session committed a report of its own.
C12_Witness ==
    \E h, g \in Handlers :
      /\ hd[h].pc = "done" /\ hd[h].kind = "report"
      /\ call_log[hd[h].id].status = "401"
      /\ NextRow(hd[h].batch, 1) <= Len(hd[h].batch)
      /\ hd[g].pc = "done" /\ hd[g].kind = "report"
      /\ call_log[hd[g].id].status = "200"
      /\ sig_readings # {}

\* C13: every stored asset key is a canonical MAC (six upper-case hex pairs
\* joined by colons), and two stored assets never spell the same hardware
\* address.
C13_CanonicalKeys ==
    LET Hex == {"0","1","2","3","4","5","6","7","8","9",
                "A","B","C","D","E","F"}
        Canonical(m) ==
            /\ Len(m) = 17
            /\ \A k \in 1..17 :
                 IF k \in {3, 6, 9, 12, 15} THEN m[k] = ":" ELSE m[k] \in Hex
    IN  /\ \A a \in assets : Canonical(a.mac)
        /\ \A a, b \in assets :
             NormalizeMac(a.mac) = NormalizeMac(b.mac) => a = b

\* ---------------------------------------------------------------------
\* The positioning claims, under PosSpec.

\* C14: every estimate calculate_position returns has an accuracy of at
\* least 1.0 m and a confidence between 0 and 1.
C14_AccuracyFloor ==
    pos_out.branch \notin {"pending", "idle", "none"} =>
      /\ pos_out.acc >= 20
      /\ 0 <= pos_out.conf_n
      /\ pos_out.conf_n <= 10 * pos_out.conf_d

C16_ConfidenceOverPairs ==
    (Len(pos_in) >= 3 /\ pos_out.branch # "pending") =>
      LET pairs == MonitorPairs(Len(pos_in))
          est == [p \in pairs |-> Bilaterate(pos_in[p[1]], pos_in[p[2]])]
          good == {p \in pairs : est[p] # NoEstimate}
          total == SumOver(good, [p \in good |-> est[p].conf_n])
          pair_count == Cardinality(pairs)
      IN  /\ pos_out.branch = "none" <=> good = {}
          /\ pos_out.branch # "none" =>
               pos_out.conf_n * pair_count
                 = Min2(10 * pair_count, total) * pos_out.conf_d

\* C16 amended: the divisor is the number of pairs whose bilateration
\* returned an estimate; the pairs of monitors at one place are left out.
C16_ConfidenceOverEstimates ==
    (Len(pos_in) >= 3 /\ pos_out.branch # "pending") =>
      LET pairs == MonitorPairs(Len(pos_in))
          est == [p \in pairs |-> Bilaterate(pos_in[p[1]], pos_in[p[2]])]
          good == {p \in pairs : est[p] # NoEstimate}
          total == SumOver(good, [p \in good |-> est[p].conf_n])
          count == Cardinality(good)
      IN  /\ pos_out.branch = "none" <=> good = {}
          /\ pos_out.branch # "none" =>
               pos_out.conf_n * count
                 = Min2(10 * count, total) * pos_out.conf_d

\* Three readings, two of them from monitors at one place: two of the three
\* pairs gave an estimate and the centroid was returned.
C16_Witness ==
    /\ Len(pos_in) = 3 /\ pos_out.branch = "centroid"
    /\ pos_out.conf_d = 2
    /\ pos_in[1].x = pos_in[2].x

\* ---------------------------------------------------------------------
\* The map endpoint's claims, under MapSpec.

\* C17 as stated: the signal fed to positioning for a monitor is the mean
\* of that monitor's N most recent readings inside the recency window; a
\* monitor that is inactive or has no reading inside the window feeds
\* nothing, and the distance fed is signal_to_distance of that mean.
C17_MeanOfRecent ==
    map_pc = "place" =>
      \A m \in MonitorIds :
        LET inside == {k \in map_cut..Len(map_rows) : map_rows[k].mon = m}
            recent == {k \in inside :
                         Cardinality({j \in inside : j > k}) < map_cfg.window}
            total == SumOver(recent, [k \in recent |-> map_rows[k].sig])
            fed == {i \in 1..Len(map_fed) : map_fed[i].mon = m}
        IN  IF m \in map_cfg.active /\ inside # {}
            THEN /\ Cardinality(fed) = 1
                 /\ \A i \in fed :
                      /\ map_fed[i].sig * Cardinality(recent) = total
                      /\ map_fed[i].est = SignalToDistance(map_fed[i].sig)
            ELSE fed = {}

\* C17 amended: the signal fed is that mean rounded down to a whole dBm.
C17_FloorMeanOfRecent ==
    map_pc = "place" =>
      \A m \in MonitorIds :
        LET inside == {k \in map_cut..Len(map_rows) : map_rows[k].mon = m}
            recent == {k \in inside :
                         Cardinality({j \in inside : j > k}) < map_cfg.window}
            total == SumOver(recent, [k \in recent |-> map_rows[k].sig])
            fed == {i \in 1..Len(map_fed) : map_fed[i].mon = m}
        IN  IF m \in map_cfg.active /\ inside # {}
            THEN /\ Cardinality(fed) = 1
                 /\ \A i \in fed :
                      /\ map_fed[i].sig * Cardinality(recent) <= total
                      /\ total < (map_fed[i].sig + 1) * Cardinality(recent)
                      /\ map_fed[i].est = SignalToDistance(map_fed[i].sig)
            ELSE fed = {}

\* An active monitor with three readings, the oldest outside the window
\* and differing from the two inside it, which differ from one another and
\* were averaged with a window of two.
C17_Witness ==
    /\ map_pc = "place" /\ map_cfg.window = 2 /\ map_cfg.active = {1}
    /\ Len(map_rows) = 3 /\ map_cut = 2
    /\ \A k \in 1..3 : map_rows[k].mon = 1
    /\ map_rows[1].sig = -89 /\ map_rows[2].sig = -60 /\ map_rows[3].sig = -89
    /\ Len(map_fed) = 1

\* C18 as stated: the asset is placed by the fresh estimate if there is
\* one, else at its stored position, else, if it is present and a monitor
\* exists, at the monitor with the default accuracy, else nowhere; a fresh
\* multi-monitor estimate, and nothing else, replaces the stored position.
C18_PlacementDefaultAccuracy ==
    map_pc = "done" =>
      LET o == map_out
          b == o.before
          multi == Len(map_fed) >= 2 /\ CalculatePosition(map_fed) # NoEstimate
          fresh == multi \/ Len(map_fed) = 1
          detected == b.present /\ map_cfg.active # {}
      IN  /\ fresh => o.source \in {"estimate", "single"}
          /\ (~fresh /\ b.acc # 0) => o.source = "stored" /\ o.acc = b.acc
          /\ (~fresh /\ b.acc = 0 /\ detected) =>
               o.source = "fallback" /\ o.acc = DefaultAccuracy
          /\ (~fresh /\ b.acc = 0 /\ ~detected) => o.source = "none"
          /\ multi => o.source = "estimate" /\ o.after.acc = o.acc
          /\ ~multi => o.after = b

\* C18 amended: the same precedence; the accuracy of the last resort is the
\* distance modelled from the asset's last signal strength when it has one,
\* and the default otherwise.
C18_PlacementPrecedence ==
    map_pc = "done" =>
      LET o == map_out
          b == o.before
          multi == Len(map_fed) >= 2 /\ CalculatePosition(map_fed) # NoEstimate
          fresh == multi \/ Len(map_fed) = 1
          detected == b.present /\ map_cfg.active # {}
      IN  /\ fresh => o.source \in {"estimate", "single"}
          /\ (~fresh /\ b.acc # 0) => o.source = "stored" /\ o.acc = b.acc
          /\ (~fresh /\ b.acc = 0 /\ detected) =>
               /\ o.source = "fallback"
               /\ o.acc = IF b.last_signal # 0
                          THEN 10 * SignalToDistance(b.last_signal)
                          ELSE DefaultAccuracy
          /\ (~fresh /\ b.acc = 0 /\ ~detected) => o.source = "none"
          /\ multi => o.source = "estimate" /\ o.after.acc = o.acc
          /\ ~multi => o.after = b

\* A present asset without a stored position, whose only readings come
\* from an inactive monitor, was placed at the first active monitor with the
\* distance modelled from its last signal strength as accuracy.
C18_Witness ==
    /\ map_pc = "done" /\ map_fed = <<>>
    /\ map_out.source = "fallback"
    /\ map_out.before.last_signal # 0
    /\ map_out.acc = 10 * SignalToDistance(map_out.before.last_signal)

\* ---------------------------------------------------------------------
\* The grouper's claims, under GroupSpec.

\* The groups, as they were before the call, that reach the threshold for
\* the asset's fingerprint.
GroupsAtThreshold ==
    { i \in 1..Len(grp_call.before) :
        /\ grp_call.before[i].has_fp
        /\ LET s == SimilarityScore(grp_asset.fp, grp_call.before[i].fp)
           IN  10 * s.n >= MinConfidence * s.d }

\* The asset joined group j: j has the highest similarity of the groups at
\* the threshold, that similarity (within [0, 1]) is its confidence_score,
\* its times_seen went up by one, and no group was added.
JoinedBest(j) ==
    LET sj == SimilarityScore(grp_asset.fp, grp_call.before[j].fp)
    IN  /\ j \in GroupsAtThreshold
        /\ \A i \in GroupsAtThreshold :
             LET si == SimilarityScore(grp_asset.fp, grp_call.before[i].fp)
             IN  si.n * sj.d <= sj.n * si.d
        /\ Len(grp_groups) = Len(grp_call.before)
        /\ grp_groups[j].confidence.n * sj.d = sj.n * grp_groups[j].confidence.d
        /\ grp_groups[j].confidence.n >= 0
        /\ grp_groups[j].confidence.n <= grp_groups[j].confidence.d
        /\ grp_groups[j].times_seen = grp_call.before[j].times_seen + 1

\* A group was created for the asset: confidence 1.0, the asset as primary.
CreatedOwn ==
    /\ Len(grp_groups) = Len(grp_call.before) + 1
    /\ grp_asset.group = Len(grp_groups)
    /\ grp_groups[grp_asset.group].confidence = [n |-> 1, d |-> 1]
    /\ grp_groups[grp_asset.group].primary_mac = grp_asset.mac
    /\ \A i \in 1..Len(grp_call.before) : grp_groups[i] = grp_call.before[i]

\* Nothing was assigned or created.
LeftAlone == grp_asset.group = 0 /\ grp_groups = grp_call.before

\* The first octet of MacOther is 02: the only locally administered
\* address an asset of the model has.
LocallyAdministered == grp_asset.mac = MacOther

C20_RecentAssetPromoted ==
    (grp_call.pc = "done" /\ grp_call.match.idx # 0) =>
        LET j == grp_call.match.idx
        IN  grp_groups[j].primary_mac =
                IF grp_asset.last_seen > grp_call.before[j].last_seen
                THEN grp_asset.mac
                ELSE grp_call.before[j].primary_mac

\* ---------------------------------------------------------------------
\* The distance model's claim, under SdSpec.

\* C21: signal_to_distance never gives the stronger of two signals the
\* larger distance, gives exactly 0.5 m to a signal at or above the
\* reference power, and gives every signal a distance within
\* [0.5 m, 100 m], for every reference power and path-loss exponent of
\* the configured ranges.
C21_DistanceMonotoneClamped ==
    sd_out # <<>> /\ Len(sd_out) = 2 =>
        /\ sd_out[2] <= sd_out[1]
        /\ sd_in.signal >= sd_in.tx_power => sd_out[1] = 50
        /\ sd_in.signal + sd_in.step >= sd_in.tx_power => sd_out[2] = 50
        /\ \A i \in 1..2 : sd_out[i] >= 50 /\ sd_out[i] <= 10000

\* A signal at the reference power exactly, against a weaker one that is
\* inside the range the clamps leave alone.
C21_Witness ==
    /\ Len(sd_out) = 2
    /\ sd_in.signal + sd_in.step = sd_in.tx_power
    /\ sd_out[1] > 50 /\ sd_out[1] < 10000
    /\ sd_out[2] = 50

\* C22: however the upserts of one unseen MAC by different callers
\* interleave, one asset exists for the MAC afterwards, one caller at most
\* created it, and no call failed or lost its detection: every local
\* detection has its probe log and every call ended without an error.
C22_ConcurrentUpsertsSurvive ==
    (\A h \in Handlers : hd[h].pc = "done") =>
        /\ \A a, b \in assets : a.mac = b.mac => a = b
        /\ \A id \in 1..Len(call_log) :
             /\ call_log[id].status \notin {"500", "error"}
             /\ call_log[id].kind \in DetectPaths =>
                  \E l \in probe_logs : l.req = id

\* ---------------------------------------------------------------------
\* The notification manager's claim, under NotifySpec.

\* C23: after a notification for the asset has succeeded, no notification
\* of any event type is sent for it before the cooldown has elapsed,
\* across check cycles and within one.
C23_CooldownBetweenNotifications ==
    \A i, j \in 1..Len(ntf_sent) :
        (i < j /\ ntf_sent[i].ok) => ntf_sent[j].at - ntf_sent[i].at >= Cooldown

\* ---------------------------------------------------------------------
\* ProbeCapture.start under the full specification.

\* C25: whenever ProbeCapture.start() returns without raising, is_running
\* is true at that moment, also when the subprocess had exited by itself
\* and the capture task had finished before the call.
C25_StartedMeansRunning ==
    [][(start_pc # "returned" /\ start_pc' = "returned") => CaptureIsRunning']_vars

\* ---------------------------------------------------------------------
\* The start/stop race, under RaceSpec.

\* The tshark processes that are alive.
RaceAlive == {p \in {"p1", "p2"} : rc_proc[p] = "alive"}

\* C24: once a stop() and a start() that overlapped have both returned,
\* at most one capture subprocess is alive, and one is alive only if
\* is_running is true.
C24_NoOrphanAfterRace ==
    (rc_call.start \in {"returned", "raised"}
       /\ rc_call.stop \in {"returned", "raised"}) =>
        /\ Cardinality(RaceAlive) <= 1
        /\ RaceAlive # {} => RaceIsRunning

\* ---------------------------------------------------------------------
\* The connection manager's claim, under WsSpec.

\* No connect, disconnect or stop_broadcast is in progress.
WsQuiescent ==
    /\ \A c \in WsClients : ws_client[c] # "accepting"
    /\ \A s \in 1..MaxStops : ws_stop[s].pc \in {"none", "done"}

\* A broadcast loop is running.
WsLoopRunning == \E i \in 1..MaxLoops : ws_loop[i] = "sleep" /\ ~ws_cancel[i]

\* C26: in every quiescent state the broadcast loop is running if and
\* only if a client is connected; a client that connects while the stop
\* scheduled by the last disconnect is pending is not left without a
\* loop.
C26_LoopIffClients ==
    WsQuiescent => (WsLoopRunning <=> ws_conns # {})

\* ---------------------------------------------------------------------
\* The reporter's claim, under ReportSpec.

\* No later query reaches below this tick: both terms of cutoff_time only
\* grow.
CutoffFloor == CutoffTime

\* C27: every probe log with a signal is included in some report to the
\* primary: at no time is there a log that no report has carried, that
\* the report in flight does not carry, and that lies before every
\* cutoff still to come.
C27_NoReadingLost ==
    \A i \in 1..Len(rep_logs) :
        rep_logs[i].has_signal =>
            \/ rep_logs[i].reported
            \/ i \in rep_run.payload
            \/ rep_logs[i].timestamp >= CutoffFloor

\* C28: calling group_randomized_macs again for the same asset with the
\* same probe history (none at all included) creates no further group and
\* leaves the asset in the group of the first call.
C28_RegroupingIdempotent ==
    (grp_call.pc = "done" /\ grp_call.calls >= 2) =>
        /\ Len(grp_groups) = grp_call.first.groups
        /\ grp_asset.group = grp_call.first.group

\* C29: when every reading of the asset inside the window comes from one
\* active monitor M, the asset is reported at M's own place, not at the
\* place of another active monitor.
C29_SingleAnchoredAtSource ==
    (map_pc = "done" /\ Len(map_fed) = 1) =>
        map_out.at = <<MonitorAt(map_fed[1].mon)>>

\* C30: for two readings whose circles are disjoint, the estimated point
\* lies between the two monitors, at separation * d1 / (d1 + d2) from the
\* first reading's monitor, so nearer to the monitor with the smaller
\* modelled distance.
C30_DisjointWeightedTowardsNear ==
    (Len(pos_in) = 2 /\ pos_out.branch = "disjoint") =>
      LET d1 == ReadingDistance(pos_in[1])
          d2 == ReadingDistance(pos_in[2])
          separation == Abs(pos_in[1].x - pos_in[2].x)
      IN  /\ 0 <= pos_out.shift_n
          /\ pos_out.shift_n <= separation * pos_out.shift_d
          /\ pos_out.shift_n * (d1 + d2) = pos_out.shift_d * separation * d1

====
